---- MODULE Spec2Model ----
(***************************************************************************)
(* Model of the blob indexing pipeline:                                    *)
(*   - the Service Bus queue consumer (ServiceBusProcessor) and its        *)
(*     shutdown from main (specification Spec);                            *)
(*   - one run of DocumentProcessor.process_file with the concurrent       *)
(*     embedding of its chunks (specification SpecFile).                   *)
(***************************************************************************)
EXTENDS Integers, Sequences, FiniteSets, TLC

(***************************************************************************)
(* Bounds of the model                                                     *)
(***************************************************************************)
\* messages returned by one receive_messages call (SERVICEBUS_MAX_MESSAGES)
MaxBatch == 2

\* handlers start_processing lets run at once (configuration value, 5 by
\* default, scaled so that a batch can exceed it)
CONCURRENT_MESSAGE_PROCESSING == 1

\* Most chunks one document is cut into
MaxChunks == 3

\* Size of the embedding semaphore of index_document_chunks: the
\* configuration value (default 3) scaled so that MaxChunks exceeds it
CONCURRENT_FILE_PROCESSING == 2

\* The largest max_retries a wrapped function is decorated with
MaxRetriesArg == 3

\* Rate-limit errors of one call that are kept in its history
MaxRateLimited == 2

\* Times process_file is run on one source
MaxRuns == 3

\* Largest number of seconds in a header, a message or a setting
MaxSeconds == 2
MaxTextLen == 6
MaxTokens == 4
MaxOverlap == 2
MaxPages == 3
MaxFeed == 3
MaxTasks == 3
MaxSourceRuns == 2

(***************************************************************************)
(* JSON values as json.loads returns them.  A string is modelled by its    *)
(* '/'-separated segments and by whether it starts with 'https://'; the    *)
(* strings used below have whole words as segments.                        *)
(***************************************************************************)
JNum(n) == [t |-> "num", n |-> n]
JNull == [t |-> "null"]
JStr(scheme, segs) == [t |-> "str", scheme |-> scheme, segs |-> segs]
JList(items) == [t |-> "list", items |-> items]
JObj(f) == [t |-> "obj", f |-> f]

PyStr(s) == JStr(FALSE, <<s>>)

\* Python truthiness of a value (the operand of `not x`)
Truthy(v) ==
    CASE v.t = "num" -> v.n # 0
      [] v.t = "null" -> FALSE
      [] v.t = "str" -> v.scheme \/ Len(v.segs) > 1 \/ v.segs[1] # ""
      [] v.t = "list" -> Len(v.items) > 0
      [] v.t = "obj" -> DOMAIN v.f # {}

\* `key in v` is defined for containers and strings only
CanContain(v) == v.t \in {"str", "list", "obj"}

\* `key in v` for a string key
Contains(key, v) ==
    CASE v.t = "obj" -> key \in DOMAIN v.f
      [] v.t = "list" -> \E k \in 1..Len(v.items) :
                            /\ v.items[k].t = "str"
                            /\ v.items[k] = PyStr(key)
      [] v.t = "str" -> \E k \in 1..Len(v.segs) : v.segs[k] = key
      [] OTHER -> FALSE

\* v[key] with a string key is defined for objects only
CanIndex(v) == v.t = "obj"

\* blob_url.replace('https://', '').split('/')
UrlParts(url) == url.segs

\* '/'.join(url_parts[2:])
JoinFrom3(parts) == JStr(FALSE, SubSeq(parts, 3, Len(parts)))

GoodUrl == JStr(TRUE, <<"acct", "docs", "dir", "a.txt">>)
ShortUrl == JStr(TRUE, <<"acct", "docs">>)
Obj1(k, v) == JObj([x \in {k} |-> v])
Obj2(k1, v1, k2, v2) == JObj([x \in {k1, k2} |-> IF x = k1 THEN v1 ELSE v2])

\* The message bodies the queue delivers in the model
Bodies == <<
    [json |-> FALSE],
    [json |-> TRUE, v |-> Obj2("blob_name", PyStr("a.txt"), "container_name", PyStr("docs"))],
    [json |-> TRUE, v |-> Obj1("data", Obj1("url", GoodUrl))],
    [json |-> TRUE, v |-> JList(<<Obj1("data", Obj1("url", GoodUrl))>>)],
    [json |-> TRUE, v |-> JObj([x \in {} |-> JNull])],
    [json |-> TRUE, v |-> Obj1("data", Obj1("url", ShortUrl))],
    [json |-> TRUE, v |-> Obj2("blob_name", PyStr(""), "container_name", PyStr("docs"))],
    [json |-> TRUE, v |-> JNum(5)],
    [json |-> TRUE, v |-> JList(<<>>)],
    [json |-> TRUE, v |-> JList(<<JNum(5)>>)]
>>

NumBodies == Len(Bodies)

(***************************************************************************)
(* _process_single_message, lines 157-207: the blob reference a parsed     *)
(* body yields.  The result is                                             *)
(*   [st |-> "raise"]             an exception left the extraction code    *)
(*   [st |-> "ok", blob, cont]    the values of blob_name, container_name  *)
(***************************************************************************)
InitialName == PyStr("unknown")

FromUrlBlob(url, default) ==
    IF Len(UrlParts(url)) >= 3 THEN JoinFrom3(UrlParts(url)) ELSE default

FromUrlCont(url, default) ==
    IF Len(UrlParts(url)) >= 3 THEN PyStr(UrlParts(url)[2]) ELSE default

\* `'data' in e and 'url' in e['data']` followed by the URL parsing
EventBranch(e, b0, c0) ==
    IF ~CanContain(e) THEN [st |-> "raise"]
    ELSE IF ~Contains("data", e) THEN [st |-> "ok", blob |-> b0, cont |-> c0]
    ELSE IF ~CanIndex(e) THEN [st |-> "raise"]
    ELSE IF ~CanContain(e.f["data"]) THEN [st |-> "raise"]
    ELSE IF ~Contains("url", e.f["data"]) THEN [st |-> "ok", blob |-> b0, cont |-> c0]
    ELSE IF ~CanIndex(e.f["data"]) THEN [st |-> "raise"]
    ELSE IF e.f["data"].f["url"].t # "str" THEN [st |-> "raise"]
    ELSE [st |-> "ok",
          blob |-> FromUrlBlob(e.f["data"].f["url"], b0),
          cont |-> FromUrlCont(e.f["data"].f["url"], c0)]

ExtractBlobInfo(v, b0, c0) ==
    IF v.t = "list" /\ Len(v.items) > 0 THEN EventBranch(v.items[1], b0, c0)
    ELSE IF ~CanContain(v) THEN [st |-> "raise"]
    ELSE IF Contains("blob_name", v) /\ Contains("container_name", v)
         THEN IF ~CanIndex(v) THEN [st |-> "raise"]
              ELSE [st |-> "ok", blob |-> v.f["blob_name"], cont |-> v.f["container_name"]]
    ELSE EventBranch(v, b0, c0)

\* `if not blob_name or not container_name`
MissingBlobInfo(r) == ~Truthy(r.blob) \/ ~Truthy(r.cont)

(***************************************************************************)
(* The shapes of message body the consumer supports, read off the JSON     *)
(* value itself: the direct shape {blob_name, container_name} and the      *)
(* event envelope (alone or first in a list) whose data.url names a        *)
(* container and a blob.  A handler keeps the kind of its body once it has *)
(* parsed it.                                                              *)
(***************************************************************************)
NonEmptyStr(v) == v.t = "str" /\ Truthy(v)

DirectShape(v) ==
    /\ v.t = "obj"
    /\ {"blob_name", "container_name"} \subseteq DOMAIN v.f
    /\ NonEmptyStr(v.f["blob_name"])
    /\ NonEmptyStr(v.f["container_name"])

ParsableUrl(u) ==
    /\ u.t = "str"
    /\ Len(u.segs) >= 3
    /\ u.segs[2] # ""
    /\ \E k \in 3..Len(u.segs) : u.segs[k] # ""

Envelope(v) ==
    /\ v.t = "obj"
    /\ "data" \in DOMAIN v.f
    /\ v.f["data"].t = "obj"
    /\ "url" \in DOMAIN v.f["data"].f
    /\ ParsableUrl(v.f["data"].f["url"])

BodyKind(body) ==
    IF ~body.json THEN "notjson"
    ELSE IF \/ DirectShape(body.v)
            \/ Envelope(body.v)
            \/ body.v.t = "list" /\ Len(body.v.items) > 0 /\ Envelope(body.v.items[1])
         THEN "ref"
    ELSE "noref"

(***************************************************************************)
(* State                                                                   *)
(***************************************************************************)
VARIABLES
    processing,   \* ServiceBusProcessor._processing
    closed,       \* ServiceBusQueueReceiver._closed
    loop_pc,      \* position of the start_processing task
    h,            \* the handlers (_process_single_message) of the current batch
    main_pc,      \* position of main() around its shutdown code
    cfg,          \* what initialize() and the settings gave the DocumentProcessor
    req,          \* the source one run is about, and who asked for the run
    resp,         \* the answer of the webhook handler, if it is the caller
    f_pc,         \* position of one process_file run
    f_try,        \* attempt counter of retry_logic around get_blob_properties
    f_out,        \* how that run ended, as its caller sees it
    chunks,       \* the chunks the chunker made of the extracted content
    emb,          \* the embedding tasks of index_document_chunks, one per chunk
    uploads,      \* the batches passed to upload_documents, in call order
    f_log,        \* the calls process_file made on its collaborators, in order
    retry,        \* one call of a function wrapped by retry_logic
    idx,          \* a search index and the runs of process_file that fed it
    wt,           \* one call of _get_wait_time_from_error
    ck,           \* one call of chunk_text or chunk_pages
    pr,           \* a call of the async wrapper and one of the sync wrapper
    tk,           \* the token cache of a client and the tasks that refresh it
    nr,           \* a retry_logic-wrapped call that calls a wrapped function
    ix            \* a search index fed by the runs of process_file on several sources

qvars == <<processing, closed, loop_pc, h, main_pc>>

rvars == <<retry>>

yvars == <<pr, tk, nr, ix>>

xvars == <<idx, wt, ck, pr, tk, nr, ix>>

fvars == <<cfg, req, resp, f_pc, f_try, f_out, chunks, emb, uploads, f_log>>

vars == <<processing, closed, loop_pc, h, main_pc,
          cfg, req, resp, f_pc, f_try, f_out, chunks, emb, uploads, f_log,
          retry, idx, wt, ck, pr, tk, nr, ix>>

\* Outcomes of DocumentProcessor.process_file as its caller sees them
PFOutcomes == {"return", "BlobNotFoundError", "ProcessingSkippedError",
               "TokenAcquisitionError", "Exception"}

\* Outcomes of one complete_message / abandon_message call:
\*   acked     the queue answered 200/204
\*   rejected  the queue answered another status (logged, not raised)
\*   nolock    the message has no lock token: returns without a request
\*   raise     the call raised after retry_logic gave up
AckResults == {"acked", "rejected", "nolock", "raise"}

\* What the caller of complete_message / abandon_message sees of an outcome
Seen(res) == IF res = "raise" THEN "raise" ELSE "returned"

\* A handler task that gather has created and that has not run yet; qstate
\* is the state of its message in the queue
NewHandler ==
    [pc |-> "queued", kind |-> "unread", path |-> "none",
     calls |-> <<>>, pf |-> "none", cres |-> "none", ares |-> "none",
     ret |-> "none", qstate |-> "locked"]

HandlerIds == DOMAIN h

\* Handlers holding the semaphore of start_processing
Running == {i \in HandlerIds : h[i].pc \in {"in_process_file", "in_complete", "in_abandon"}}

Finished(i) == h[i].pc \in {"done", "collected", "cancelled"}

Issued(i, call) == \E k \in 1..Len(h[i].calls) : h[i].calls[k] = call

Count(i, call) == Cardinality({k \in 1..Len(h[i].calls) : h[i].calls[k] = call})

\* main has called stop_processing and task.cancel() without yielding in between;
\* once it has, every task it cancelled only gets CancelledError
Cancelling == main_pc \in {"stop_called", "cancel_sent"}

\* The consumer after ServiceBusProcessor.__init__ and before main starts it
InitQueue ==
    /\ processing = FALSE
    /\ closed = FALSE
    /\ loop_pc = "created"
    /\ h = <<>>
    /\ main_pc = "serving"

\* A DocumentProcessor on which process_file has not been called
NoRun ==
    /\ resp = "none"
    /\ f_pc = "idle"
    /\ f_try = 0
    /\ f_out = "none"
    /\ chunks = <<>>
    /\ emb = <<>>
    /\ uploads = <<>>
    /\ f_log = <<>>

\* The deployment as configured by default: every client initialised and
\* DELETE_BLOB_AFTER_PROCESSING true
DefaultCfg == [delete |-> TRUE, openai |-> TRUE, search |-> TRUE]

\* Blob names, as the sequence of their pieces; '/' and '.' are pieces
TextBlob == <<"d", "/", "a", ".", "txt">>
BinaryBlob == <<"d", "/", "a", ".", "exe">>

\* A queue message about an existing text blob of moderate size
DefaultReq == [caller |-> "queue", name |-> TextBlob, exists |-> TRUE,
               oversize |-> FALSE]

\* No call of a wrapped function is followed step by step
NoRetry == [max_retries |-> 0, attempt |-> 0, pc |-> "idle",
            history |-> <<>>, slept |-> 0,
            result |-> [t |-> "none", kind |-> "none", at |-> 0]]

\* The chunker is not being called
NoChunking == [pc |-> "idle", op |-> "none", chunks |-> <<>>, whole |-> <<>>]

\* No pair of wrappers is being called
NoPair == [pc |-> "idle"]

\* No token is being refreshed
NoToken == [pc |-> "idle"]

\* No nested call is being made
NoNest == [pc |-> "idle"]

\* No run has fed the shared index
NoStore == [pc |-> "idle"]

\* The parts of the program that a specification leaves out stay idle
NoExtras == pr = NoPair /\ tk = NoToken /\ nr = NoNest /\ ix = NoStore

\* No wait time is being computed
NoWait == [pc |-> "idle", wait |-> 0]

\* An index nobody writes to
NoIndex == [name |-> <<>>, n |-> 0, runs |-> 0, stored |-> 0, docs |-> <<>>]

Init ==
    /\ InitQueue
    /\ cfg = DefaultCfg
    /\ req = DefaultReq
    /\ NoRun
    /\ retry = NoRetry
    /\ idx = NoIndex
    /\ wt = NoWait
    /\ ck = NoChunking
    /\ NoExtras

(***************************************************************************)
(* ServiceBusProcessor._process_single_message                             *)
(***************************************************************************)
\* AfterParse with invalid JSON handled like any other error of the handler
AfterParse_BadJsonAbandons(body) ==
    IF ~body.json THEN [path |-> "error", call |-> "abandon"]
    ELSE LET r == ExtractBlobInfo(body.v, InitialName, InitialName) IN
         IF r.st = "raise" THEN [path |-> "error", call |-> "abandon"]
         ELSE IF MissingBlobInfo(r) THEN [path |-> "noinfo", call |-> "complete"]
         ELSE [path |-> "file", call |-> "process_file"]

\* Lines 160-210: what the handler does once it has parsed the body
AfterParse(body) ==
    IF ~body.json THEN [path |-> "badjson", call |-> "complete"]
    ELSE LET r == ExtractBlobInfo(body.v, InitialName, InitialName) IN
         IF r.st = "raise" THEN [path |-> "error", call |-> "abandon"]
         ELSE IF MissingBlobInfo(r) THEN [path |-> "noinfo", call |-> "complete"]
         ELSE [path |-> "file", call |-> "process_file"]

\* AfterProcessFile without the clause for the expected conditions: every
\* exception of process_file abandons the message
AfterProcessFile_OneClause(outcome) ==
    CASE outcome = "return" -> [path |-> "success", call |-> "complete"]
      [] outcome = "TokenAcquisitionError" -> [path |-> "token", call |-> "abandon"]
      [] OTHER -> [path |-> "error", call |-> "abandon"]

\* Lines 210-247: the acknowledgment chosen for an outcome of process_file
AfterProcessFile(outcome) ==
    CASE outcome = "return" -> [path |-> "success", call |-> "complete"]
      [] outcome \in {"BlobNotFoundError", "ProcessingSkippedError"} ->
            [path |-> "skipped", call |-> "complete"]
      [] outcome = "TokenAcquisitionError" -> [path |-> "token", call |-> "abandon"]
      [] OTHER -> [path |-> "error", call |-> "abandon"]

\* AfterComplete with the handler falling into its abandon clause after a
\* complete_message call that returned
AfterComplete_FallsThrough(path, res) ==
    IF path = "skipped" THEN [call |-> "none", ret |-> "true"]
    ELSE [call |-> "abandon", ret |-> "none"]

\* What follows a complete_message call: on the skipped path the call is
\* wrapped in its own try (lines 222-228); elsewhere an exception of the call
\* reaches `except Exception` (line 240), which abandons the message
AfterComplete(path, res) ==
    IF path = "skipped" THEN [call |-> "none", ret |-> "true"]
    ELSE IF res = "raise" THEN [call |-> "abandon", ret |-> "none"]
    ELSE [call |-> "none", ret |-> "true"]

\* The handler issues `call` for its message
Issue(rec, path, call) ==
    [rec EXCEPT !.path = path,
                !.calls = Append(@, call),
                !.pc = CASE call = "complete" -> "in_complete"
                         [] call = "abandon" -> "in_abandon"
                         [] OTHER -> "in_process_file"]

HStart_NoGate(i, b) ==
    /\ loop_pc = "gathering"
    /\ ~Cancelling
    /\ h[i].pc = "queued"
    /\ LET a == AfterParse(Bodies[b]) IN
         h' = [h EXCEPT ![i] =
                 Issue([@ EXCEPT !.kind = BodyKind(Bodies[b])], a.path, a.call)]
    /\ UNCHANGED <<processing, closed, loop_pc, main_pc>>
    /\ UNCHANGED <<fvars, rvars, xvars>>

\* The handler task starts: it takes the semaphore, parses the body of its
\* message and runs up to its first outbound call
HStart(i, b) ==
    /\ loop_pc = "gathering"
    /\ ~Cancelling
    /\ h[i].pc = "queued"
    /\ Cardinality(Running) < CONCURRENT_MESSAGE_PROCESSING
    /\ LET a == AfterParse(Bodies[b]) IN
         h' = [h EXCEPT ![i] =
                 Issue([@ EXCEPT !.kind = BodyKind(Bodies[b])], a.path, a.call)]
    /\ UNCHANGED <<processing, closed, loop_pc, main_pc>>
    /\ UNCHANGED <<fvars, rvars, xvars>>

\* process_file comes back to the handler, which acknowledges accordingly
PFEnd(i, outcome) ==
    /\ ~Cancelling
    /\ h[i].pc = "in_process_file"
    /\ LET a == AfterProcessFile(outcome) IN
         h' = [h EXCEPT ![i] = Issue([@ EXCEPT !.pf = outcome], a.path, a.call)]
    /\ UNCHANGED <<processing, closed, loop_pc, main_pc>>
    /\ UNCHANGED <<fvars, rvars, xvars>>

\* complete_message comes back
CompleteEnd(i, res) ==
    /\ ~Cancelling
    /\ h[i].pc = "in_complete"
    /\ LET a == AfterComplete(h[i].path, res)
           r1 == [h[i] EXCEPT !.cres = Seen(res),
                              !.qstate = IF res = "acked" THEN "completed" ELSE @]
       IN h' = [h EXCEPT ![i] =
                  IF a.call = "abandon" THEN Issue(r1, "error", "abandon")
                  ELSE [r1 EXCEPT !.pc = "done", !.ret = a.ret]]
    /\ UNCHANGED <<processing, closed, loop_pc, main_pc>>
    /\ UNCHANGED <<fvars, rvars, xvars>>

\* abandon_message comes back; its own failure is logged only (lines 233-247)
AbandonEnd(i, res) ==
    /\ ~Cancelling
    /\ h[i].pc = "in_abandon"
    /\ h' = [h EXCEPT ![i] =
               [@ EXCEPT !.ares = Seen(res), !.pc = "done", !.ret = "false",
                         !.qstate = IF res = "acked" THEN "abandoned" ELSE @]]
    /\ UNCHANGED <<processing, closed, loop_pc, main_pc>>
    /\ UNCHANGED <<fvars, rvars, xvars>>

\* The task of a handler that has returned is over: gather keeps its result
\* and the frame of the handler is gone
HCollect(i) ==
    /\ h[i].pc = "done"
    /\ h' = [h EXCEPT ![i] = [NewHandler EXCEPT !.pc = "collected", !.ret = h[i].ret]]
    /\ UNCHANGED <<processing, closed, loop_pc, main_pc>>
    /\ UNCHANGED <<fvars, rvars, xvars>>

\* CancelledError is raised in a handler at the await it is suspended on; it
\* is no Exception, so no except clause of the handler catches it
HCancelled(i) ==
    /\ main_pc = "cancel_sent"
    /\ loop_pc = "gathering"
    /\ ~Finished(i)
    /\ h' = [h EXCEPT ![i].pc = "cancelled"]
    /\ UNCHANGED <<processing, closed, loop_pc, main_pc>>
    /\ UNCHANGED <<fvars, rvars, xvars>>

(***************************************************************************)
(* ServiceBusProcessor.start_processing                                    *)
(***************************************************************************)
\* Line 93: the task starts and sets the running flag
StartProcessing ==
    /\ loop_pc = "created"
    /\ ~Cancelling
    /\ processing' = TRUE
    /\ loop_pc' = "loop"
    /\ UNCHANGED <<closed, h, main_pc>>
    /\ UNCHANGED <<fvars, rvars, xvars>>

\* Lines 97-103: the loop condition is evaluated; receive_messages is called
\* while the flag is set, and the task returns once it is cleared
ReceiveCall ==
    /\ loop_pc = "loop"
    /\ loop_pc' = IF processing THEN "receiving" ELSE "stopped"
    /\ UNCHANGED <<processing, closed, h, main_pc>>
    /\ UNCHANGED <<fvars, rvars, xvars>>

\* Lines 105-106: an empty batch
ReceiveEmpty ==
    /\ loop_pc = "receiving"
    /\ ~Cancelling
    /\ loop_pc' = "loop"
    /\ UNCHANGED <<processing, closed, h, main_pc>>
    /\ UNCHANGED <<fvars, rvars, xvars>>

\* Lines 112-120: a batch of n messages, one handler task each
ReceiveBatch(n) ==
    /\ loop_pc = "receiving"
    /\ ~Cancelling
    /\ ~closed
    /\ h' = [i \in 1..n |-> NewHandler]
    /\ loop_pc' = "gathering"
    /\ UNCHANGED <<processing, closed, main_pc>>
    /\ UNCHANGED <<fvars, rvars, xvars>>

\* Lines 138-140: receive_messages raised, the loop sleeps
ReceiveError ==
    /\ loop_pc = "receiving"
    /\ ~Cancelling
    /\ ~closed
    /\ loop_pc' = "error_sleep"
    /\ UNCHANGED <<processing, closed, h, main_pc>>
    /\ UNCHANGED <<fvars, rvars, xvars>>

ErrorSleepEnd_Returns ==
    /\ loop_pc = "error_sleep"
    /\ ~Cancelling
    /\ loop_pc' = "stopped"
    /\ UNCHANGED <<processing, closed, h, main_pc>>
    /\ UNCHANGED <<fvars, rvars, xvars>>

\* Line 140 is over: the loop goes back to its condition
ErrorSleepEnd ==
    /\ loop_pc = "error_sleep"
    /\ ~Cancelling
    /\ loop_pc' = "loop"
    /\ UNCHANGED <<processing, closed, h, main_pc>>
    /\ UNCHANGED <<fvars, rvars, xvars>>

\* GatherEnd with the loop going on as soon as one handler has returned
GatherEnd_FirstDone ==
    /\ loop_pc = "gathering"
    /\ ~Cancelling
    /\ \E i \in HandlerIds : h[i].pc = "collected"
    /\ loop_pc' = "loop"
    /\ UNCHANGED <<processing, closed, h, main_pc>>
    /\ UNCHANGED <<fvars, rvars, xvars>>

\* Lines 120-136: gather returns when every handler has returned
GatherEnd ==
    /\ loop_pc = "gathering"
    /\ ~Cancelling
    /\ \A i \in HandlerIds : h[i].pc = "collected"
    /\ h' = <<>>
    /\ loop_pc' = "loop"
    /\ UNCHANGED <<processing, closed, main_pc>>
    /\ UNCHANGED <<fvars, rvars, xvars>>

\* The cancelled task ends: at once where it awaits a receive or a sleep or
\* has not started, after its handlers where it awaits gather
TaskCancelled ==
    /\ main_pc = "cancel_sent"
    /\ \/ loop_pc \in {"created", "receiving", "error_sleep"}
       \/ loop_pc = "gathering" /\ \A i \in HandlerIds : Finished(i)
    /\ loop_pc' = "cancelled"
    /\ UNCHANGED <<processing, closed, h, main_pc>>
    /\ UNCHANGED <<fvars, rvars, xvars>>

(***************************************************************************)
(* main (indexer_server.py, lines 128-138) and stop_processing             *)
(***************************************************************************)
\* The tasks main can find suspended when it runs its shutdown code
Suspended == loop_pc \in {"created", "receiving", "error_sleep", "gathering", "stopped"}

\* stop_processing: the flag is cleared, receiver and client are closed
StopProcessing ==
    /\ main_pc = "serving"
    /\ Suspended
    /\ processing' = FALSE
    /\ closed' = TRUE
    /\ main_pc' = "stop_called"
    /\ UNCHANGED <<loop_pc, h>>
    /\ UNCHANGED <<fvars, rvars, xvars>>

\* servicebus_task.cancel()
CancelTask ==
    /\ main_pc = "stop_called"
    /\ main_pc' = "cancel_sent"
    /\ UNCHANGED <<processing, closed, loop_pc, h>>
    /\ UNCHANGED <<fvars, rvars, xvars>>

\* `await servicebus_task` returns, runner.cleanup() follows
AwaitTask ==
    /\ main_pc = "cancel_sent"
    /\ loop_pc \in {"cancelled", "stopped"}
    /\ main_pc' = "released"
    /\ UNCHANGED <<processing, closed, loop_pc, h>>
    /\ UNCHANGED <<fvars, rvars, xvars>>

Next ==
    \/ StartProcessing
    \/ ReceiveCall
    \/ ReceiveEmpty
    \/ \E n \in 1..MaxBatch : ReceiveBatch(n)
    \/ ReceiveError
    \/ ErrorSleepEnd
    \/ GatherEnd
    \/ TaskCancelled
    \/ \E i \in HandlerIds, b \in 1..NumBodies : HStart(i, b)
    \/ \E i \in HandlerIds, o \in PFOutcomes : PFEnd(i, o)
    \/ \E i \in HandlerIds, r \in AckResults : CompleteEnd(i, r)
    \/ \E i \in HandlerIds, r \in AckResults : AbandonEnd(i, r)
    \/ \E i \in HandlerIds : HCollect(i)
    \/ \E i \in HandlerIds : HCancelled(i)
    \/ StopProcessing
    \/ CancelTask
    \/ AwaitTask

Spec == Init /\ [][Next]_vars

\* Every step but the shutdown request: the steps of the consumer task, of
\* its handlers and of main once it runs its shutdown code
Scheduled ==
    \/ StartProcessing
    \/ ReceiveCall
    \/ ReceiveEmpty
    \/ \E n \in 1..MaxBatch : ReceiveBatch(n)
    \/ ReceiveError
    \/ ErrorSleepEnd
    \/ GatherEnd
    \/ TaskCancelled
    \/ \E i \in HandlerIds, b \in 1..NumBodies : HStart(i, b)
    \/ \E i \in HandlerIds, o \in PFOutcomes : PFEnd(i, o)
    \/ \E i \in HandlerIds, r \in AckResults : CompleteEnd(i, r)
    \/ \E i \in HandlerIds, r \in AckResults : AbandonEnd(i, r)
    \/ \E i \in HandlerIds : HCollect(i)
    \/ \E i \in HandlerIds : HCancelled(i)
    \/ CancelTask
    \/ AwaitTask

\* The event loop runs every task that can run, and every request and sleep
\* a task waits for comes to an end; nothing says that a shutdown is ever
\* requested
SpecFair == Spec /\ WF_vars(Scheduled)

(***************************************************************************)
(* Properties of the queue consumer (specification Spec)                   *)
(***************************************************************************)
Completes == {"return", "BlobNotFoundError", "ProcessingSkippedError"}
Abandons == {"TokenAcquisitionError", "Exception"}

\* C1 (as stated): an outcome of process_file that is a normal return, a
\* skip or a missing source makes the handler call complete_message and
\* never abandon_message; any other outcome makes it call abandon_message
\* and never complete_message.
C1_Original ==
    \A i \in HandlerIds :
        /\ h[i].pf \in Completes => Issued(i, "complete") /\ ~Issued(i, "abandon")
        /\ h[i].pf \in Abandons => Issued(i, "abandon") /\ ~Issued(i, "complete")

\* C1 (amended): as C1, except that after a normal return of process_file
\* the handler calls abandon_message when, and only when, its
\* complete_message call raised.
C1_OutcomeMapping ==
    \A i \in HandlerIds :
        /\ h[i].pf = "return" =>
              /\ Issued(i, "complete")
              /\ Issued(i, "abandon") <=> h[i].cres = "raise"
        /\ h[i].pf \in {"BlobNotFoundError", "ProcessingSkippedError"} =>
              Issued(i, "complete") /\ ~Issued(i, "abandon")
        /\ h[i].pf \in Abandons => Issued(i, "abandon") /\ ~Issued(i, "complete")

\* A handler has returned False after process_file returned normally: the
\* complete_message call raised and the message was abandoned
C1_Witness ==
    \E i \in HandlerIds :
        /\ h[i].pc = "done"
        /\ h[i].pf = "return"
        /\ h[i].calls = <<"process_file", "complete", "abandon">>
        /\ h[i].ret = "false"

\* C2 (as stated): no handler issues both complete_message and
\* abandon_message for its message, on any path.
C2_Original ==
    \A i \in HandlerIds : ~(Issued(i, "complete") /\ Issued(i, "abandon"))

\* C2 (amended): once complete_message has returned normally, abandon_message
\* is never issued for the message; once abandon_message has been issued,
\* complete_message is never issued after it; each is issued at most once.
C2_AckMonotonic ==
    \A i \in HandlerIds :
        /\ h[i].cres = "returned" => ~Issued(i, "abandon")
        /\ \A k \in 1..Len(h[i].calls) : \A l \in 1..Len(h[i].calls) :
              h[i].calls[k] = "abandon" /\ k < l => h[i].calls[l] # "complete"
        /\ Count(i, "complete") <= 1
        /\ Count(i, "abandon") <= 1
        /\ h[i].qstate = "completed" => ~Issued(i, "abandon")

\* Both acknowledgment calls of one handler have raised
C2_Witness ==
    \E i \in HandlerIds :
        /\ h[i].pc = "done"
        /\ h[i].cres = "raise"
        /\ h[i].ares = "raise"

\* A handler has acknowledged its message one way or the other
Acked(i) == h[i].pc = "collected" \/ Issued(i, "complete") \/ Issued(i, "abandon")

\* C3 (as stated): when the shutdown is over, every message whose handler
\* was in flight has reached complete_message or abandon_message.
C3_Original ==
    main_pc = "released" =>
        \A i \in HandlerIds : h[i].kind # "unread" => Acked(i)

\* C4 (as stated): a body that is JSON but yields no blob and container name
\* is completed, never abandoned, never passed to process_file, and the
\* handler returns True.
C4_Original ==
    \A i \in HandlerIds :
        h[i].kind = "noref" =>
            /\ ~Issued(i, "process_file")
            /\ ~Issued(i, "abandon")
            /\ Issued(i, "complete")
            /\ h[i].pc = "done" => h[i].ret = "true"

\* C5 (as stated): a body that is not JSON is completed exactly once, never
\* abandoned, never passed to process_file, and the handler returns True.
C5_Original ==
    \A i \in HandlerIds :
        h[i].kind = "notjson" =>
            /\ Count(i, "complete") = 1
            /\ ~Issued(i, "process_file")
            /\ ~Issued(i, "abandon")
            /\ h[i].pc = "done" => h[i].ret = "true"

\* C5 (amended): a body that is not JSON is passed to complete_message
\* exactly once and never to process_file; if that call returns, the handler
\* never abandons and returns True; if it raises, the handler abandons the
\* message once and returns False.
C5_BadJson ==
    \A i \in HandlerIds :
        h[i].kind = "notjson" =>
            /\ Count(i, "complete") = 1
            /\ ~Issued(i, "process_file")
            /\ h[i].cres # "raise" =>
                  /\ ~Issued(i, "abandon")
                  /\ h[i].pc = "done" => h[i].ret = "true"
            /\ h[i].cres = "raise" =>
                  /\ Count(i, "abandon") = 1
                  /\ h[i].pc = "done" => h[i].ret = "false"

\* A message that is not JSON has been completed and removed from the queue
C5_Witness ==
    \E i \in HandlerIds :
        /\ h[i].kind = "notjson"
        /\ h[i].pc = "done"
        /\ h[i].ret = "true"
        /\ h[i].qstate = "completed"

(***************************************************************************)
(* DocumentProcessor: one run of process_file with its caller              *)
(* (specification SpecFile).  A text is modelled by a number: the chunks   *)
(* of an extracted document are the texts 1..n, the notices the extractor  *)
(* returns in place of a content are negative.                             *)
(***************************************************************************)
MAX_RETRIES == 3
EMBEDDING_VECTOR_DIMENSION == 1536

EMBEDDING_FALLBACK_TOKEN_RATIO == 4

\* The blob a run processes
BlobName == req.name

\* blob_name.split('.')[-1] if '.' in blob_name else ''
FileExtension(blob_name) ==
    LET dots == {k \in DOMAIN blob_name : blob_name[k] = "."}
    IN IF dots = {} THEN <<>>
       ELSE LET last == CHOOSE k \in dots : \A j \in dots : j <= k
            IN SubSeq(blob_name, last + 1, Len(blob_name))

ALL_SUPPORTED_EXTENSIONS ==
    {<<"txt">>, <<"md">>, <<"csv">>, <<"json">>, <<"pdf">>, <<"docx">>, <<"doc">>}

Supported(blob_name) == FileExtension(blob_name) \in ALL_SUPPORTED_EXTENSIONS

\* "File too large: <name> (<size>MB)", returned as the content of a blob
\* above MAX_FILE_SIZE_MB
TooLargeNotice == -1

\* "Binary file: <name> (Size: ..., Type: ...)", returned as the content of
\* a blob whose extension is in none of the supported lists
BinaryNotice == -2

\* base_document['id']: blob_name.replace('/', '_').replace('.', '_')
BaseDocumentId(blob_name) ==
    [k \in DOMAIN blob_name |->
        IF blob_name[k] \in {"/", "."} THEN "_" ELSE blob_name[k]]

\* [0.0] * EMBEDDING_VECTOR_DIMENSION
ZeroVector == [j \in 1..EMBEDDING_VECTOR_DIMENSION |-> 0]

\* result['data'][0]['embedding'] of a successful embeddings request: a
\* vector the service computed from the text, here the text in every
\* coordinate
ServiceVector(text) == [j \in 1..EMBEDDING_VECTOR_DIMENSION |-> text]

\* One iteration of the loop of retry_logic around a call that ended with
\* outcome "ok", "rate_limit" (an exception _is_rate_limit_error accepts,
\* which is not counted) or "fail" (any other exception), attempt being the
\* failures counted so far
RetryStep(attempt, outcome) ==
    IF outcome = "ok" THEN [st |-> "returned", attempt |-> attempt]
    ELSE IF outcome = "rate_limit" THEN [st |-> "retry", attempt |-> attempt]
    ELSE IF attempt + 1 < MAX_RETRIES
         THEN [st |-> "retry", attempt |-> attempt + 1]
         ELSE [st |-> "raised", attempt |-> attempt + 1]

\* How retry_logic sees the end of one request: a missing blob, a failed
\* token refresh (_refresh_token raises a plain Exception) and any other
\* error are exceptions that are no rate limit
RetryClass(outcome) ==
    IF outcome \in {"ok", "rate_limit"} THEN outcome ELSE "fail"

GenerateEmbeddings_Reraise(text, r) ==
    IF r.st = "returned"
    THEN [t |-> "value", vec |-> ServiceVector(text)]
    ELSE [t |-> "exc"]

\* What generate_embeddings gives its caller once create_embeddings has
\* returned or raised (r.st), or once the missing client has raised
\* ValueError: its own except clause turns every exception into the zero
\* vector, so the retry_logic around generate_embeddings itself returns on
\* its first iteration
GenerateEmbeddings(text, r) ==
    IF r.st = "returned"
    THEN [t |-> "value", vec |-> ServiceVector(text)]
    ELSE [t |-> "value", vec |-> ZeroVector]

\* TaskResult with every task reading the loop variable after the loop
TaskResult_LateBinding(i, text, g) ==
    IF g.t = "exc" THEN [t |-> "exc"]
    ELSE [t |-> "tuple", chunk_index |-> Len(chunks) - 1, chunk |-> text,
          embedding |-> g.vec]

\* An entry of embedding_results: the tuple the task returned, or the
\* exception gather put in its place
TaskResult(i, text, g) ==
    IF g.t = "exc" THEN [t |-> "exc"]
    ELSE [t |-> "tuple", chunk_index |-> i - 1, chunk |-> text,
          embedding |-> g.vec]

\* chunk_doc of index_document_chunks
ChunkDoc(base_id, result) ==
    [action |-> "upload",
     id |-> <<base_id, "_chunk_", result.chunk_index>>,
     content |-> result.chunk,
     vector |-> result.embedding]

IsTuple(result) == result.t = "tuple"

BuildDocuments_DropZero(base_id, results) ==
    LET kept == SelectSeq(results,
                    LAMBDA r : r.t = "tuple" /\ r.embedding # ZeroVector)
    IN [k \in 1..Len(kept) |-> ChunkDoc(base_id, kept[k])]

\* documents_to_index: one document per entry of embedding_results that is
\* not an exception, in the order of embedding_results
BuildDocuments(base_id, results) ==
    LET kept == SelectSeq(results, IsTuple)
    IN [k \in 1..Len(kept) |-> ChunkDoc(base_id, kept[k])]

\* An embedding task that gather has created and that has not run yet
NewTask == [st |-> "waiting", attempt |-> 0, failed |-> FALSE,
            result |-> [t |-> "none"]]

\* Tasks inside "async with embedding_semaphore", waiting for create_embeddings
Calling == {i \in DOMAIN emb : emb[i].st = "calling"}

AllEmbedded == \A i \in DOMAIN emb : emb[i].st = "done"

Logged(ev) == \E k \in DOMAIN f_log : f_log[k] = ev

\* process_file ends: out is "return" or the exception its caller gets
EndRun(out) ==
    /\ f_pc' = "done"
    /\ f_out' = out

\* Lines 307-339 and 219-240: the content is cut into the chunks chs and
\* index_document_chunks creates one embedding task per chunk
IndexChunks(chs) ==
    /\ chunks' = chs
    /\ IF cfg.search
       THEN /\ emb' = [i \in DOMAIN chs |-> NewTask]
            /\ f_pc' = "embedding"
            /\ UNCHANGED f_out
       ELSE /\ EndRun("Exception")
            /\ UNCHANGED emb

\* handlers.py lines 187-192: the webhook handler answers 'skipped' for an
\* extension outside ALL_SUPPORTED_EXTENSIONS and does not call process_file
WebhookSkip ==
    /\ req.caller = "webhook"
    /\ f_pc = "idle"
    /\ resp = "none"
    /\ ~Supported(BlobName)
    /\ resp' = "skipped"
    /\ UNCHANGED <<cfg, req, f_pc, f_try, f_out, chunks, emb, uploads, f_log>>
    /\ UNCHANGED <<qvars, rvars, xvars>>

\* Lines 293-301 and file_extractor.py lines 58-68: process_file calls the
\* extractor, which asks for the properties of the blob.  The extractor
\* exists whenever the blob client does (initialize creates them together).
PFCall ==
    /\ f_pc = "idle"
    /\ req.caller = "webhook" => Supported(BlobName)
    /\ f_pc' = "properties"
    /\ f_log' = Append(f_log, "get_blob_properties")
    /\ UNCHANGED <<cfg, req, resp, f_try, f_out, chunks, emb, uploads>>
    /\ UNCHANGED <<qvars, rvars, xvars>>

\* One HEAD request of get_blob_properties ends (blob_client.py lines
\* 183-203); retry_logic repeats it or lets the call return or raise.  An
\* exception leaves the extractor and process_file as it is; after the
\* properties, a blob above MAX_FILE_SIZE_MB gives a notice as content
\* (file_extractor.py lines 69-73), any other blob is downloaded.
PropertiesAttempt(outcome) ==
    /\ f_pc = "properties"
    /\ outcome = "ok" => req.exists
    /\ outcome = "not_found" => ~req.exists
    /\ LET r == RetryStep(f_try, RetryClass(outcome))
           noted == IF outcome = "not_found" /\ ~Logged("not_found")
                    THEN Append(f_log, "not_found") ELSE f_log
       IN CASE r.st = "retry" ->
                 /\ f_try' = r.attempt
                 /\ f_log' = noted
                 /\ UNCHANGED <<f_pc, f_out, chunks, emb>>
            [] r.st = "raised" ->
                 /\ f_try' = r.attempt
                 /\ f_log' = Append(noted, IF outcome = "token"
                                           THEN "token_failure" ELSE "read_failed")
                 /\ EndRun("Exception")
                 /\ UNCHANGED <<chunks, emb>>
            [] r.st = "returned" /\ req.oversize ->
                 /\ f_try' = 0
                 /\ f_log' = f_log
                 /\ IndexChunks(<<TooLargeNotice>>)
            [] r.st = "returned" /\ ~req.oversize ->
                 /\ f_try' = 0
                 /\ f_log' = Append(f_log, "download_blob")
                 /\ f_pc' = "download"
                 /\ UNCHANGED <<f_out, chunks, emb>>
    /\ UNCHANGED <<cfg, req, resp, uploads>>
    /\ UNCHANGED <<qvars, rvars, xvars>>

\* Lines 362-372: download_blob or the decoding of the content raised, once
\* the retries of the download are spent; the exception reaches the caller
ExtractRaise(cause) ==
    /\ f_pc = "download"
    /\ EndRun("Exception")
    /\ f_log' = Append(f_log, IF cause = "token"
                              THEN "token_failure" ELSE "read_failed")
    /\ UNCHANGED <<cfg, req, resp, f_try, chunks, emb, uploads>>
    /\ UNCHANGED <<qvars, rvars, xvars>>

\* file_extractor.py lines 100-103: for an extension in none of the
\* supported lists the content is a notice about the binary file
ExtractBinary ==
    /\ f_pc = "download"
    /\ ~Supported(BlobName)
    /\ IndexChunks(<<BinaryNotice>>)
    /\ UNCHANGED <<cfg, req, resp, f_try, uploads, f_log>>
    /\ UNCHANGED <<qvars, rvars, xvars>>

ExtractEmpty_Indexed ==
    /\ f_pc = "download"
    /\ Supported(BlobName)
    /\ f_log' = Append(f_log, "empty_content")
    /\ IndexChunks(<<0>>)
    /\ UNCHANGED <<cfg, req, resp, f_try, uploads>>
    /\ UNCHANGED <<qvars, rvars, xvars>>

\* Lines 303-305: nothing but whitespace was extracted
ExtractEmpty ==
    /\ f_pc = "download"
    /\ Supported(BlobName)
    /\ f_log' = Append(f_log, "empty_content")
    /\ EndRun("return")
    /\ UNCHANGED <<cfg, req, resp, f_try, chunks, emb, uploads>>
    /\ UNCHANGED <<qvars, rvars, xvars>>

\* Lines 307-339: the content of a supported blob is cut into n chunks
ExtractContent(n) ==
    /\ f_pc = "download"
    /\ Supported(BlobName)
    /\ IndexChunks([i \in 1..n |-> i])
    /\ UNCHANGED <<cfg, req, resp, f_try, uploads, f_log>>
    /\ UNCHANGED <<qvars, rvars, xvars>>

\* A task's result once generate_embeddings has ended with r
Embedded(i, r) ==
    [st |-> "done", attempt |-> r.attempt, failed |-> r.st # "returned",
     result |-> TaskResult(i, chunks[i], GenerateEmbeddings(chunks[i], r))]

\* The log with ev noted, once
Noted(log, ev) == IF \E k \in DOMAIN log : log[k] = ev THEN log ELSE Append(log, ev)

\* What the end of task i adds to the log: that it ended before a task
\* created earlier, and that its embedding failed for want of a token
TaskNotes(i, r, outcome) ==
    LET l1 == IF \E j \in 1..(i - 1) : emb[j].st # "done"
              THEN Noted(f_log, "out_of_order") ELSE f_log
    IN IF r.st = "raised" /\ outcome = "token"
       THEN Noted(l1, "token_failure") ELSE l1

\* EmbStart without the semaphore
EmbStart_NoGate(i) ==
    /\ f_pc = "embedding"
    /\ emb[i].st = "waiting"
    /\ \A j \in 1..(i - 1) : emb[j].st # "waiting"
    /\ emb' = [emb EXCEPT ![i] =
                 IF cfg.openai THEN [@ EXCEPT !.st = "calling"]
                 ELSE Embedded(i, [st |-> "raised", attempt |-> 0])]
    /\ UNCHANGED <<cfg, req, resp, f_pc, f_try, f_out, chunks, uploads, f_log>>
    /\ UNCHANGED <<qvars, rvars, xvars>>

\* Lines 228-230 and 185-200: a task enters the semaphore, in creation
\* order, and generate_embeddings calls create_embeddings; without a client
\* it raises ValueError into its own except clause instead
EmbStart(i) ==
    /\ f_pc = "embedding"
    /\ emb[i].st = "waiting"
    /\ \A j \in 1..(i - 1) : emb[j].st # "waiting"
    /\ Cardinality(Calling) < CONCURRENT_FILE_PROCESSING
    /\ emb' = [emb EXCEPT ![i] =
                 IF cfg.openai THEN [@ EXCEPT !.st = "calling"]
                 ELSE Embedded(i, [st |-> "raised", attempt |-> 0])]
    /\ UNCHANGED <<cfg, req, resp, f_pc, f_try, f_out, chunks, uploads, f_log>>
    /\ UNCHANGED <<qvars, rvars, xvars>>

\* One embeddings request of create_embeddings ends; retry_logic repeats it
\* or lets create_embeddings return or raise
EmbAttempt(i, outcome) ==
    /\ f_pc = "embedding"
    /\ emb[i].st = "calling"
    /\ LET r == RetryStep(emb[i].attempt, RetryClass(outcome))
       IN IF r.st = "retry"
          THEN /\ emb' = [emb EXCEPT ![i].attempt = r.attempt]
               /\ UNCHANGED f_log
          ELSE /\ emb' = [emb EXCEPT ![i] = Embedded(i, r)]
               /\ f_log' = TaskNotes(i, r, outcome)
    /\ UNCHANGED <<cfg, req, resp, f_pc, f_try, f_out, chunks, uploads>>
    /\ UNCHANGED <<qvars, rvars, xvars>>

\* Lines 240-270: gather returns, the documents are built and, unless there
\* is none, passed to upload_documents
GatherDone ==
    /\ f_pc = "embedding"
    /\ AllEmbedded
    /\ LET documents_to_index ==
               BuildDocuments(BaseDocumentId(BlobName),
                              [i \in DOMAIN emb |-> emb[i].result])
       IN IF documents_to_index = <<>>
          THEN /\ EndRun("Exception")
               /\ UNCHANGED <<uploads, f_log>>
          ELSE /\ f_pc' = "uploading"
               /\ uploads' = Append(uploads, documents_to_index)
               /\ f_log' = Append(f_log, "upload_documents")
               /\ UNCHANGED f_out
    /\ UNCHANGED <<cfg, req, resp, f_try, chunks, emb>>
    /\ UNCHANGED <<qvars, rvars, xvars>>

\* Lines 270-279 and 341-360: upload_documents returns True or raises once
\* its retries are spent ("token": because no token could be acquired);
\* after True the blob is deleted if the setting
\* DELETE_BLOB_AFTER_PROCESSING says so
UploadEnd(res) ==
    /\ f_pc = "uploading"
    /\ IF res = "true"
       THEN IF cfg.delete
            THEN /\ f_pc' = "deleting"
                 /\ f_log' = f_log \o <<"upload_ok", "delete_blob">>
                 /\ UNCHANGED f_out
            ELSE /\ EndRun("return")
                 /\ f_log' = Append(f_log, "upload_ok")
       ELSE /\ EndRun("Exception")
            /\ f_log' = f_log \o (IF res = "token" THEN <<"token_failure">> ELSE <<>>)
                              \o <<"upload_failed">>
    /\ UNCHANGED <<cfg, req, resp, f_try, chunks, emb, uploads>>
    /\ UNCHANGED <<qvars, rvars, xvars>>

\* DeleteEnd with a failed deletion failing the run
DeleteEnd_Escalates(res) ==
    /\ f_pc = "deleting"
    /\ EndRun(IF res = "true" THEN "return" ELSE "Exception")
    /\ f_log' = Append(f_log, IF res = "true" THEN "delete_ok" ELSE "delete_failed")
    /\ UNCHANGED <<cfg, req, resp, f_try, chunks, emb, uploads>>
    /\ UNCHANGED <<qvars, rvars, xvars>>

\* Lines 348-358: delete_blob returns True or raises; either way the run
\* returns normally
DeleteEnd(res) ==
    /\ f_pc = "deleting"
    /\ EndRun("return")
    /\ f_log' = Append(f_log, IF res = "true" THEN "delete_ok" ELSE "delete_failed")
    /\ UNCHANGED <<cfg, req, resp, f_try, chunks, emb, uploads>>
    /\ UNCHANGED <<qvars, rvars, xvars>>

\* servicebus_processor.py lines 210-247: process_file comes back to the
\* handler of the message
PFReturn ==
    /\ req.caller = "queue"
    /\ f_pc = "done"
    /\ \E i \in HandlerIds : PFEnd(i, f_out)

\* handlers.py lines 195-201: process_file comes back to the webhook handler
WebhookRespond ==
    /\ req.caller = "webhook"
    /\ f_pc = "done"
    /\ resp = "none"
    /\ resp' = IF f_out = "return" THEN "success" ELSE "error"
    /\ UNCHANGED <<cfg, req, f_pc, f_try, f_out, chunks, emb, uploads, f_log>>
    /\ UNCHANGED <<qvars, rvars, xvars>>

\* The settings and clients a deployment can have
Configs == [delete : BOOLEAN, openai : BOOLEAN, search : BOOLEAN]

\* The sources a run can be asked to process, by a queue message or by a
\* blob event posted to the webhook
Requests ==
    {r \in [caller : {"queue", "webhook"}, name : {TextBlob, BinaryBlob},
            exists : BOOLEAN, oversize : BOOLEAN] : r.oversize => r.exists}

\* The handler of a message once it has parsed a blob reference out of the
\* body and called process_file
InFile == Issue([NewHandler EXCEPT !.kind = "ref"], "file", "process_file")

InitFile ==
    /\ cfg \in Configs
    /\ req \in Requests
    /\ NoRun
    /\ closed = FALSE
    /\ main_pc = "serving"
    /\ IF req.caller = "queue"
       THEN processing = TRUE /\ loop_pc = "gathering" /\ h = <<InFile>>
       ELSE processing = FALSE /\ loop_pc = "created" /\ h = <<>>
    /\ retry = NoRetry
    /\ idx = NoIndex
    /\ wt = NoWait
    /\ ck = NoChunking
    /\ NoExtras

NextFile ==
    \/ WebhookSkip
    \/ PFCall
    \/ \E o \in {"ok", "not_found", "rate_limit", "fail", "token"} : PropertiesAttempt(o)
    \/ \E c \in {"service", "token"} : ExtractRaise(c)
    \/ ExtractBinary
    \/ ExtractEmpty
    \/ \E n \in 1..MaxChunks : ExtractContent(n)
    \/ \E i \in DOMAIN emb : EmbStart(i)
    \/ \E i \in DOMAIN emb, o \in {"ok", "rate_limit", "fail", "token"} : EmbAttempt(i, o)
    \/ GatherDone
    \/ \E r \in {"true", "raise", "token"} : UploadEnd(r)
    \/ \E r \in {"true", "raise"} : DeleteEnd(r)
    \/ PFReturn
    \/ \E i \in HandlerIds, r \in AckResults : CompleteEnd(i, r)
    \/ \E i \in HandlerIds, r \in AckResults : AbandonEnd(i, r)
    \/ WebhookRespond

SpecFile == InitFile /\ [][NextFile]_vars

(***************************************************************************)
(* Properties of one process_file run (specification SpecFile)             *)
(***************************************************************************)
\* The tasks whose embedding failed for good: create_embeddings raised once
\* its attempts were spent, or there was no client to call
FailedChunks == {i \in DOMAIN emb : emb[i].st = "done" /\ emb[i].failed}

SucceededChunks == {i \in DOMAIN emb : emb[i].st = "done" /\ ~emb[i].failed}

\* The document id of the chunk at position i (ordinal i - 1)
DocId(i) == <<BaseDocumentId(BlobName), "_chunk_", i - 1>>

\* gather of index_document_chunks has returned
Gathered == emb # <<>> /\ AllEmbedded /\ f_pc \in {"uploading", "deleting", "done"}

InBatch(batch, i) == \E k \in DOMAIN batch : batch[k].id = DocId(i)

\* C6: when the embedding collaborator fails on every attempt for a chunk,
\* the chunk's embedding is a vector of exactly EMBEDDING_VECTOR_DIMENSION
\* entries, all zero, and once the embeddings are gathered a batch is passed
\* to upload_documents that holds the document of that chunk's ordinal with
\* that vector.
C6_ZeroVectorFallback ==
    \A i \in FailedChunks :
        /\ emb[i].result.t = "tuple"
        /\ Len(emb[i].result.embedding) = EMBEDDING_VECTOR_DIMENSION
        /\ \A j \in DOMAIN emb[i].result.embedding : emb[i].result.embedding[j] = 0
        /\ Gathered =>
             /\ Len(uploads) = 1
             /\ \E k \in DOMAIN uploads[1] :
                   /\ uploads[1][k].id = DocId(i)
                   /\ uploads[1][k].content = chunks[i]
                   /\ uploads[1][k].vector = emb[i].result.embedding

\* C6 witness: of two chunks the first has failed MAX_RETRIES times, the
\* second was embedded, and the batch being uploaded holds both documents.
C6_Witness ==
    /\ f_pc = "uploading"
    /\ Len(chunks) = 2
    /\ FailedChunks = {1}
    /\ emb[1].attempt = MAX_RETRIES
    /\ Len(uploads[1]) = 2
    /\ uploads[1][1].id = DocId(1)
    /\ uploads[1][1].vector = ZeroVector

\* Some but not all chunks failed, and the batch has been handed over
PartialFailure ==
    /\ Gathered
    /\ FailedChunks # {}
    /\ SucceededChunks # {}
    /\ uploads # <<>>

C8_Original ==
    (emb # <<>> /\ FailedChunks = DOMAIN emb) =>
        /\ uploads = <<>>
        /\ f_pc = "done" => f_out \notin {"none", "return"}

\* C9 as stated: a run in which some chunk's embedding failed for good does
\* not end as a run in which every embedding succeeded does, by returning
\* normally.
C9_Original ==
    (f_pc = "done" /\ FailedChunks # {}) => f_out # "return"

\* C10 as stated: delete_blob is called only with DELETE_BLOB_AFTER_PROCESSING
\* true and after upload_documents has returned success in the same run;
\* never on the empty-content path, before the upload, after a failed upload
\* or after a failed embedding.
C10_Original ==
    \A k \in DOMAIN f_log :
        f_log[k] = "delete_blob" =>
            /\ cfg.delete
            /\ \E j \in 1..(k - 1) : f_log[j] = "upload_ok"
            /\ \A j \in 1..(k - 1) : f_log[j] # "upload_failed"
            /\ chunks # <<>>
            /\ FailedChunks = {}

(***************************************************************************)
(* utils.retry.retry_logic: one call of a wrapped function                 *)
(***************************************************************************)
\* How one invocation of the wrapped function can end: it returns, or it
\* raises a rate-limit error, an error whose HTTP status is in
\* SKIP_RETRY_CODES ("permanent"), or any other error ("transient")
Outcomes == {"ok", "rate_limit", "transient", "permanent"}

\* _is_rate_limit_error: status 429 or one of the rate-limit phrases; no
\* other status is looked at
IsRateLimitError(kind) == kind = "rate_limit"

Failures(hist) == SelectSeq(hist, LAMBDA o : o \notin {"ok", "rate_limit"})

RateLimited(hist) == SelectSeq(hist, LAMBDA o : o = "rate_limit")

\* The invocations so far, in order; of an endless run of rate-limit errors
\* the first MaxRateLimited are kept
Recorded(hist, kind) ==
    IF IsRateLimitError(kind) /\ Len(RateLimited(hist)) >= MaxRateLimited
    THEN hist ELSE Append(hist, kind)

CountedAttempt_CountsRateLimit(r, kind) == r.attempt + 1

\* The attempt counter after an invocation that raised: `attempt += 1` in the
\* else branch only
CountedAttempt(r, kind) ==
    IF IsRateLimitError(kind) THEN r.attempt ELSE r.attempt + 1

Raised_Exhausted(hist) == [t |-> "RuntimeError", kind |-> "none", at |-> 0]

\* The bare `raise` of the except clause: the exception being handled, which
\* is the one of the latest invocation
Raised(hist) == [t |-> "exc", kind |-> hist[Len(hist)], at |-> Len(hist)]

\* `while attempt < max_retries`; the statement after the loop raises
\* RuntimeError
WhileTest ==
    /\ retry.pc = "test"
    /\ IF retry.attempt < retry.max_retries
       THEN retry' = [retry EXCEPT !.pc = "calling"]
       ELSE retry' = [retry EXCEPT !.pc = "raised",
                         !.result = [t |-> "RuntimeError", kind |-> "none",
                                     at |-> 0]]
    /\ UNCHANGED <<qvars, fvars, xvars>>

\* One invocation of the wrapped function, and the except clause if it raised
Invoke(outcome) ==
    /\ retry.pc = "calling"
    /\ LET hist == Recorded(retry.history, outcome)
           att == CountedAttempt(retry, outcome)
       IN IF outcome = "ok"
          THEN retry' = [retry EXCEPT !.pc = "returned", !.history = hist,
                            !.result = [t |-> "value", kind |-> "none",
                                        at |-> Len(hist)]]
          ELSE IF IsRateLimitError(outcome)
          THEN retry' = [retry EXCEPT !.pc = "rate_limit_sleep",
                            !.history = hist, !.attempt = att]
          ELSE IF att < retry.max_retries
          THEN retry' = [retry EXCEPT !.pc = "delay_sleep", !.history = hist,
                            !.attempt = att, !.slept = @ + 1]
          ELSE retry' = [retry EXCEPT !.pc = "raised", !.history = hist,
                            !.attempt = att, !.result = Raised(hist)]
    /\ UNCHANGED <<qvars, fvars, xvars>>

\* sleep(wait_time) is over; `continue` goes back to the loop test
RateLimitSleepEnd ==
    /\ retry.pc = "rate_limit_sleep"
    /\ retry' = [retry EXCEPT !.pc = "test"]
    /\ UNCHANGED <<qvars, fvars, xvars>>

\* sleep(delay) is over; the loop body ends
DelaySleepEnd ==
    /\ retry.pc = "delay_sleep"
    /\ retry' = [retry EXCEPT !.pc = "test"]
    /\ UNCHANGED <<qvars, fvars, xvars>>

\* A call of the wrapper: `attempt = 0`, max_retries as the decorator got it
InitRetry ==
    /\ InitQueue
    /\ cfg = DefaultCfg
    /\ req = DefaultReq
    /\ NoRun
    /\ \E m \in 0..MaxRetriesArg :
          retry = [NoRetry EXCEPT !.max_retries = m, !.pc = "test"]
    /\ idx = NoIndex
    /\ wt = NoWait
    /\ ck = NoChunking
    /\ NoExtras

NextRetry ==
    \/ WhileTest
    \/ \E o \in Outcomes : Invoke(o)
    \/ RateLimitSleepEnd
    \/ DelaySleepEnd

SpecRetry == InitRetry /\ [][NextRetry]_vars

\* Every step of the wrapper that can be taken is taken in the end: the
\* wrapped function and the sleeps all finish
SpecRetryFair == SpecRetry /\ WF_vars(NextRetry)


(***************************************************************************)
(* Properties of a run together with its caller (specification SpecFile)   *)
(***************************************************************************)
\* The handler of the message has returned
Handled(i) == h[i].pc = "done"

\* C11 as stated: when upload_documents succeeded and delete_blob failed,
\* process_file returns normally and the message is completed, not abandoned.
C11_Original ==
    (Logged("upload_ok") /\ Logged("delete_failed")) =>
        /\ f_out = "return"
        /\ \A i \in HandlerIds :
              /\ ~Issued(i, "abandon")
              /\ Handled(i) => Issued(i, "complete")

\* C11 amended: when upload_documents succeeded and delete_blob failed,
\* process_file returns normally and the handler calls complete_message; it
\* calls abandon_message only if that complete_message call itself raised,
\* and returns True otherwise.
C11_DeleteFailure ==
    (Logged("upload_ok") /\ Logged("delete_failed")) =>
        /\ f_out = "return"
        /\ \A i \in HandlerIds :
              /\ h[i].pf \in {"none", "return"}
              /\ h[i].pf = "return" => Issued(i, "complete")
              /\ Issued(i, "abandon") => h[i].cres = "raise"
              /\ (Handled(i) /\ h[i].cres = "returned") =>
                    (h[i].ret = "true" /\ ~Issued(i, "abandon"))

\* C11 witness: the deletion failed after a successful upload and the
\* handler has completed the message and returned True.
C11_Witness ==
    /\ Logged("upload_ok")
    /\ Logged("delete_failed")
    /\ \E i \in HandlerIds :
          /\ Handled(i)
          /\ h[i].calls = <<"process_file", "complete">>
          /\ h[i].qstate = "completed"
          /\ h[i].ret = "true"

\* C12 as stated: once the blob read has answered not-found, the read is not
\* repeated, process_file ends with BlobNotFoundError and the message is
\* completed, not abandoned.
C12_Original ==
    Logged("not_found") =>
        /\ f_pc # "properties"
        /\ f_pc = "done" => f_out = "BlobNotFoundError"
        /\ \A i \in HandlerIds :
              /\ ~Issued(i, "abandon")
              /\ Handled(i) => Issued(i, "complete")

\* C13 as stated: in the default deployment, for an existing source of
\* unsupported type or above the size limit nothing is uploaded, the blob is
\* not deleted and a queue message for it is completed, whoever the caller
\* is.
C13_Original ==
    (cfg = DefaultCfg /\ req.exists /\ (~Supported(BlobName) \/ req.oversize)) =>
        /\ uploads = <<>>
        /\ ~Logged("delete_blob")
        /\ resp # "success"
        /\ \A i \in HandlerIds :
              /\ ~Issued(i, "abandon")
              /\ Handled(i) => Issued(i, "complete")

\* C14 as stated: when an outbound call of the run (blob read, embedding,
\* index upload) failed for want of a token, the message is abandoned and
\* not completed.
C14_Original ==
    Logged("token_failure") =>
        \A i \in HandlerIds :
            /\ ~Issued(i, "complete")
            /\ Handled(i) => Issued(i, "abandon")

\* C19: whatever the order in which the embedding tasks ended, the batch
\* handed to upload_documents lists one document per chunk in input order;
\* the document at position i has the id '<base id>_chunk_<i - 1>', the text
\* of chunk i and the vector obtained for chunk i.
C19_ChunkOrder ==
    (Gathered /\ uploads # <<>>) =>
        /\ Len(uploads[1]) = Len(chunks)
        /\ \A i \in DOMAIN chunks :
              /\ uploads[1][i].id = <<BaseDocumentId(BlobName), "_chunk_", i - 1>>
              /\ uploads[1][i].content = chunks[i]
              /\ uploads[1][i].vector = emb[i].result.embedding
              /\ i \in SucceededChunks =>
                    uploads[1][i].vector = ServiceVector(chunks[i])

\* C19 witness: three chunks were all embedded, one task ended before a task
\* created earlier, and the batch being uploaded holds them in input order.
C19_Witness ==
    /\ f_pc = "uploading"
    /\ Logged("out_of_order")
    /\ Len(chunks) = 3
    /\ SucceededChunks = {1, 2, 3}
    /\ [k \in 1..3 |-> uploads[1][k].content] = chunks

\* C20: at most CONCURRENT_FILE_PROCESSING generate_embeddings calls of a
\* run are in progress at a time, the calls sleeping between two attempts
\* included.
C20_EmbeddingGate ==
    Cardinality(Calling) <= CONCURRENT_FILE_PROCESSING

\* C20 witness: the gate is full, one of the calls in it has already failed
\* once, and a further task is kept waiting.
C20_Witness ==
    /\ Cardinality(Calling) = CONCURRENT_FILE_PROCESSING
    /\ \E i \in Calling : emb[i].attempt >= 1
    /\ \E i \in DOMAIN emb : emb[i].st = "waiting"

C21_MessageGate == Cardinality(Running) <= CONCURRENT_MESSAGE_PROCESSING

\* The gate is full and another message of the batch is still waiting for
\* the semaphore
C21_Witness ==
    /\ Cardinality(Running) = CONCURRENT_MESSAGE_PROCESSING
    /\ \E i \in HandlerIds : h[i].pc = "queued"
    /\ Len(h) > CONCURRENT_MESSAGE_PROCESSING

\* C22 as stated: once stop_processing has cleared the running flag,
\* start_processing returns in the end.
C22_Original == (main_pc # "serving") ~> (loop_pc = "stopped")

\* C23: after receive_messages has raised, the loop sleeps and then, unless
\* the running flag has been cleared meanwhile, calls receive_messages again.
C23_ReceiveErrorRetried ==
    (loop_pc = "error_sleep") ~> (loop_pc = "receiving" \/ ~processing)

\* receive_messages has raised while the consumer is running
C23_Witness ==
    /\ loop_pc = "error_sleep"
    /\ processing
    /\ main_pc = "serving"

(***************************************************************************)
(* Properties of retry_logic (specifications SpecRetry, SpecRetryFair)     *)
(***************************************************************************)
Fails == Len(Failures(retry.history))

RetryEnded == retry.pc \in {"returned", "raised"}

C16_RateLimitNotCounted ==
    /\ retry.attempt = Fails
    /\ retry.pc = "raised" => Fails = retry.max_retries
    /\ Fails = retry.max_retries =>
          retry.pc \in (IF retry.max_retries = 0 THEN {"test", "raised"}
                        ELSE {"raised"})
    /\ (retry.pc = "raised" /\ retry.max_retries >= 1) =>
          retry.result.t = "exc"

\* A call that gave up with rate-limit errors before, between and after its
\* counted failures
C16_Witness ==
    /\ retry.pc = "raised"
    /\ retry.max_retries >= 2
    /\ Len(RateLimited(retry.history)) >= 2
    /\ retry.history[1] = "rate_limit"
    /\ \E k \in DOMAIN retry.history :
          /\ k > 2
          /\ retry.history[k] = "rate_limit"
          /\ retry.history[k - 1] # "rate_limit"

\* C17 as stated: every call returns or raises in the end, whatever the
\* outcomes of the wrapped function, rate-limit errors without end included.
C17_Original == <>RetryEnded

\* C18 as stated: a failure with a status of SKIP_RETRY_CODES is the last
\* invocation of the call: its error is raised, and if it was the first
\* invocation nothing was slept.
C18_Original ==
    \A k \in DOMAIN retry.history :
        retry.history[k] = "permanent" =>
           /\ k = Len(retry.history)
           /\ retry.pc = "raised"
           /\ retry.result = [t |-> "exc", kind |-> "permanent", at |-> k]
           /\ k = 1 => retry.slept = 0

(***************************************************************************)
(* The search index under repeated runs of process_file on one source      *)
(***************************************************************************)
\* Ids of the documents in a sequence of documents
Ids(docs) == {docs[k].id : k \in DOMAIN docs}

Upload_Appends(docs, batch) == docs \o batch

\* What the index holds after a batch was posted with the action 'upload'
\* on every document (search_client.py lines 67-71): the service replaces a
\* stored document that has the id of a posted one and inserts the others
Upload(docs, batch) ==
    SelectSeq(docs, LAMBDA doc : doc.id \notin Ids(batch)) \o batch

\* The batch one run of index_document_chunks builds for a source cut into n
\* chunks, outs[i] telling how create_embeddings ended for chunk i
RunBatch(name, n, outs) ==
    BuildDocuments(BaseDocumentId(name),
        [i \in 1..n |-> TaskResult(i, i, GenerateEmbeddings(i, [st |-> outs[i]]))])

\* process_file runs on the source once more and upload_documents succeeds
Reprocess(outs) ==
    /\ idx.runs < MaxRuns
    /\ idx' = [idx EXCEPT !.runs = @ + 1, !.stored = @ + 1,
                          !.docs = Upload(@, RunBatch(idx.name, idx.n, outs))]
    /\ UNCHANGED <<qvars, fvars, rvars, wt, ck, yvars>>

\* process_file runs on the source once more and ends before or in
\* upload_documents with an exception
ReprocessFailed ==
    /\ idx.runs < MaxRuns
    /\ idx' = [idx EXCEPT !.runs = @ + 1]
    /\ UNCHANGED <<qvars, fvars, rvars, wt, ck, yvars>>

\* An empty index and a source that is cut into n chunks on every run
InitIndex ==
    /\ InitQueue
    /\ cfg = DefaultCfg
    /\ req = DefaultReq
    /\ NoRun
    /\ retry = NoRetry
    /\ \E name \in {TextBlob, BinaryBlob}, n \in 1..MaxChunks :
          idx = [NoIndex EXCEPT !.name = name, !.n = n]
    /\ wt = NoWait
    /\ ck = NoChunking
    /\ NoExtras

NextIndex ==
    \/ \E outs \in [1..idx.n -> {"returned", "raised"}] : Reprocess(outs)
    \/ ReprocessFailed

SpecIndex == InitIndex /\ [][NextIndex]_vars

(***************************************************************************)
(* Properties of the index (specification SpecIndex)                       *)
(***************************************************************************)
\* C25: however often the same source has been processed, the index holds no
\* two documents with the same id, and once a run has uploaded it holds
\* exactly one document for each chunk ordinal of the source, whose id is
\* made of the blob name and that ordinal.
C25_IdempotentReupload ==
    /\ \A k, l \in DOMAIN idx.docs : idx.docs[k].id = idx.docs[l].id => k = l
    /\ idx.stored >= 1 =>
          /\ Len(idx.docs) = idx.n
          /\ \A o \in 0..(idx.n - 1) :
                \E k \in DOMAIN idx.docs :
                    /\ idx.docs[k].id = <<BaseDocumentId(idx.name), "_chunk_", o>>
                    /\ idx.docs[k].content = o + 1

\* The same source of several chunks has been uploaded MaxRuns times; of its
\* documents one has a computed vector and one the zero vector
C25_Witness ==
    /\ idx.stored = MaxRuns
    /\ idx.n >= 2
    /\ \E k \in DOMAIN idx.docs : idx.docs[k].vector = ZeroVector
    /\ \E k \in DOMAIN idx.docs : idx.docs[k].vector # ZeroVector

(***************************************************************************)
(* utils.retry._get_wait_time_from_error                                   *)
(***************************************************************************)
\* A header as the function reads it: absent, a text int() rejects (an HTTP
\* date for instance), or the text of an integer
HeaderValues ==
    {[k |-> "absent", v |-> 0], [k |-> "text", v |-> 0]}
        \cup {[k |-> "int", v |-> n] : n \in -1..MaxSeconds}

\* 'retry after N seconds' in str(error): absent, or N, a run of digits
HintValues ==
    {[k |-> "absent", v |-> 0]} \cup {[k |-> "int", v |-> n] : n \in 0..MaxSeconds}

\* The errors passed to the function: whether they carry a response that
\* counts as true (a requests.Response of an error status does not), its
\* headers, and the hint in their message
Errors ==
    [response : BOOLEAN, retry_after : HeaderValues,
     reset : HeaderValues, hint : HintValues]

Min(a, b) == IF a <= b THEN a ELSE b

Max(a, b) == IF a >= b THEN a ELSE b

\* Lines 63-88; int() of a text that is no integer raises ValueError, which
\* the except clause turns into the default
GetWaitTimeFromError(error, now, base_wait, max_wait) ==
    IF error.response /\ error.retry_after.k # "absent"
    THEN IF error.retry_after.k = "int"
         THEN Min(error.retry_after.v, max_wait)
         ELSE base_wait
    ELSE IF error.response /\ error.reset.k # "absent"
    THEN IF error.reset.k = "int"
         THEN Min(Max(error.reset.v - now, 0), max_wait)
         ELSE base_wait
    ELSE IF error.hint.k = "int"
    THEN Min(error.hint.v, max_wait)
    ELSE base_wait

\* The function returns
WaitComputed ==
    /\ wt.pc = "called"
    /\ wt' = [wt EXCEPT !.pc = "returned",
                 !.wait = GetWaitTimeFromError(wt.error, wt.now,
                              wt.RATE_LIMIT_BASE_WAIT, wt.RATE_LIMIT_MAX_WAIT)]
    /\ UNCHANGED <<qvars, fvars, rvars, idx, ck, yvars>>

\* A call of the function with any error, at any time, under any setting of
\* the two waits
InitWait ==
    /\ InitQueue
    /\ cfg = DefaultCfg
    /\ req = DefaultReq
    /\ NoRun
    /\ retry = NoRetry
    /\ idx = NoIndex
    /\ \E e \in Errors, t \in 0..1, b \in 0..MaxSeconds, m \in 0..MaxSeconds :
          wt = [pc |-> "called", wait |-> 0, error |-> e, now |-> t,
                RATE_LIMIT_BASE_WAIT |-> b, RATE_LIMIT_MAX_WAIT |-> m]
    /\ ck = NoChunking
    /\ NoExtras

NextWait == WaitComputed

SpecWait == InitWait /\ [][NextWait]_vars

(***************************************************************************)
(* Properties of the wait time (specification SpecWait)                    *)
(***************************************************************************)
\* C30 as stated: the wait the function returns is at least 0 and at most
\* RATE_LIMIT_MAX_WAIT.
C30_Original ==
    wt.pc = "returned" => (0 <= wt.wait /\ wt.wait <= wt.RATE_LIMIT_MAX_WAIT)

\* A source of the wait supplies a usable value
Usable(value) == value.k = "int"

\* The wait of the first source in the order that supplies a usable value,
\* each source taken as the function takes it
FirstUsable(error, now, base_wait, max_wait) ==
    IF Usable(error.retry_after) THEN Min(error.retry_after.v, max_wait)
    ELSE IF Usable(error.reset) THEN Min(Max(error.reset.v - now, 0), max_wait)
    ELSE IF Usable(error.hint) THEN Min(error.hint.v, max_wait)
    ELSE base_wait

\* C31 as stated: the wait is taken from the first source that supplies a
\* usable value, in the order retry-after header, x-ratelimit-reset header,
\* 'retry after N seconds' in the message, RATE_LIMIT_BASE_WAIT; a source
\* that is absent or cannot be parsed falls through to the next one.
C31_Original ==
    wt.pc = "returned" =>
        wt.wait = FirstUsable(wt.error, wt.now,
                              wt.RATE_LIMIT_BASE_WAIT, wt.RATE_LIMIT_MAX_WAIT)

(***************************************************************************)
(* utils.chunking.TokenAwareChunker                                        *)
(***************************************************************************)
\* A text is the sequence of its characters
IsSpace(c) == c \in {" ", "\n"}

\* str.lstrip()
LStrip(s) ==
    SubSeq(s,
           CHOOSE i \in 1..(Len(s) + 1) :
              /\ i = Len(s) + 1 \/ ~IsSpace(s[i])
              /\ \A j \in 1..(i - 1) : IsSpace(s[j]),
           Len(s))

\* str.rstrip()
RStrip(s) ==
    SubSeq(s, 1,
           CHOOSE i \in 0..Len(s) :
              /\ i = 0 \/ ~IsSpace(s[i])
              /\ \A j \in (i + 1)..Len(s) : IsSpace(s[j]))

\* str.strip()
Strip(s) == LStrip(RStrip(s))

\* The length of the first word of t, a text that begins with a word
FirstWordEnd(t) ==
    CHOOSE i \in 1..Len(t) :
        /\ i = Len(t) \/ IsSpace(t[i + 1])
        /\ \A j \in 1..i : ~IsSpace(t[j])

\* str.split(): the maximal runs of characters that are no white space
RECURSIVE SplitStripped(_)
SplitStripped(t) ==
    IF t = <<>> THEN <<>>
    ELSE <<SubSeq(t, 1, FirstWordEnd(t))>>
            \o SplitStripped(LStrip(SubSeq(t, FirstWordEnd(t) + 1, Len(t))))

SplitWords(s) == SplitStripped(LStrip(s))

\* " ".join(ws)
RECURSIVE JoinWords(_)
JoinWords(ws) ==
    IF ws = <<>> THEN <<>>
    ELSE IF Len(ws) = 1 THEN ws[1]
    ELSE ws[1] \o <<" ">> \o JoinWords(Tail(ws))

\* count_tokens: len(self.tokenizer.encode(text)).  The tokenizer is taken
\* as one that makes a token of every character that is no white space, so
\* that a word of several letters is a word of several tokens
CountTokens(s) == Cardinality({i \in DOMAIN s : ~IsSpace(s[i])})

\* The end of the run of sentence marks that begins at position i of s
MarksEnd(s, i) ==
    CHOOSE e \in i..Len(s) :
        /\ \A j \in i..e : s[j] = "."
        /\ e = Len(s) \/ s[e + 1] # "."

\* The pattern [.!?]+(?:\s+|$) matches at position i of s
EndingAt(s, i) ==
    /\ s[i] = "."
    /\ MarksEnd(s, i) = Len(s) \/ IsSpace(s[MarksEnd(s, i) + 1])

\* s.strip() for s in sentences if s.strip()
Kept(stripped) == IF stripped = <<>> THEN <<>> ELSE <<stripped>>

\* _split_into_sentences: re.split at every run of sentence marks that is
\* followed by white space or ends the text, the pieces stripped and the
\* empty ones dropped
RECURSIVE SplitIntoSentences(_)
RECURSIVE SplitAt(_, _)
SplitAt(s, starts) ==
    IF starts = {} THEN Kept(Strip(s))
    ELSE Kept(Strip(SubSeq(s, 1, (CHOOSE k \in starts : \A l \in starts : k <= l) - 1)))
            \o SplitIntoSentences(
                SubSeq(s, MarksEnd(s, CHOOSE k \in starts : \A l \in starts : k <= l) + 1,
                       Len(s)))

SplitIntoSentences(s) == SplitAt(s, {i \in DOMAIN s : EndingAt(s, i)})

\* _split_by_characters: slices of max_tokens * EMBEDDING_FALLBACK_TOKEN_RATIO
\* characters
RECURSIVE SplitSlices(_, _)
SplitSlices(s, max_chars) ==
    IF s = <<>> THEN <<>>
    ELSE IF Len(s) <= max_chars THEN <<s>>
    ELSE <<SubSeq(s, 1, max_chars)>>
            \o SplitSlices(SubSeq(s, max_chars + 1, Len(s)), max_chars)

SplitByCharacters(s, max_tokens) ==
    SplitSlices(s, max_tokens * EMBEDDING_FALLBACK_TOKEN_RATIO)

\* One round of the loop of _split_long_sentence (lines 209-220), acc
\* holding chunks and current_chunk
WordStep(acc, word, test_chunk, max_tokens) ==
    IF CountTokens(test_chunk) > max_tokens
    THEN IF acc.current_chunk # <<>>
         THEN [out |-> Append(acc.out, acc.current_chunk), current_chunk |-> word]
         ELSE [out |-> acc.out \o SplitByCharacters(word, max_tokens),
               current_chunk |-> <<>>]
    ELSE [out |-> acc.out, current_chunk |-> test_chunk]

RECURSIVE SplitLongLoop(_, _, _, _)
SplitLongLoop(ws, k, max_tokens, acc) ==
    IF k > Len(ws) THEN acc
    ELSE SplitLongLoop(ws, k + 1, max_tokens,
            WordStep(acc, ws[k],
                     IF acc.current_chunk # <<>>
                     THEN acc.current_chunk \o <<" ">> \o ws[k] ELSE ws[k],
                     max_tokens))

\* if current_chunk: chunks.append(current_chunk)
WithCurrent(acc) ==
    IF acc.current_chunk # <<>> THEN Append(acc.out, acc.current_chunk) ELSE acc.out

\* _split_long_sentence
SplitLongSentence(sentence, max_tokens) ==
    WithCurrent(SplitLongLoop(SplitWords(sentence), 1, max_tokens,
                              [out |-> <<>>, current_chunk |-> <<>>]))

\* The words from position k of ws on
WordsFrom(ws, k) == SubSeq(ws, k, Len(ws))

\* The largest number of a set of numbers
Largest(ks) == CHOOSE k \in ks : \A l \in ks : l <= k

OverlapOf_FromStart(ws, overlap_tokens) ==
    JoinWords(SubSeq(ws, 1,
        Largest({k \in 0..Len(ws) :
                    \A j \in 1..k :
                        CountTokens(JoinWords(SubSeq(ws, 1, j))) <= overlap_tokens})))

\* The loop of _get_overlap_text (lines 265-269): the words are walked from
\* the last one backwards, and the walk stops at the first suffix above
\* overlap_tokens
OverlapOf(ws, overlap_tokens) ==
    JoinWords(WordsFrom(ws, Len(ws) + 1 -
        Largest({k \in 0..Len(ws) :
                    \A j \in 1..k :
                        CountTokens(JoinWords(WordsFrom(ws, Len(ws) - j + 1)))
                            <= overlap_tokens})))

\* _get_overlap_text
GetOverlapText(s, overlap_tokens) ==
    IF overlap_tokens <= 0 THEN <<>> ELSE OverlapOf(SplitWords(s), overlap_tokens)

\* chunks.append(current_chunk.strip()) under `if current_chunk.strip()`
AppendStripped(out, stripped) ==
    IF stripped # <<>> THEN Append(out, stripped) ELSE out

Flushed(out, current_chunk) == AppendStripped(out, Strip(current_chunk))

AllButLast(pieces) == SubSeq(pieces, 1, Len(pieces) - 1)

LastPiece(pieces) == IF pieces = <<>> THEN <<>> ELSE pieces[Len(pieces)]

\* current_chunk and current_tokens are set anew
Restarted(out, current_chunk) ==
    [out |-> out, current_chunk |-> current_chunk,
     current_tokens |-> CountTokens(current_chunk)]

\* Lines 96-101: all the pieces but the last are emitted, the last one is
\* the new running chunk
Spliced(out, pieces) == Restarted(out \o AllButLast(pieces), LastPiece(pieces))

\* One round of the loop of chunk_text (lines 84-115), acc holding chunks,
\* current_chunk and current_tokens
SentenceStep(acc, sentence, max_tokens, overlap_tokens) ==
    IF CountTokens(sentence) > max_tokens
    THEN Spliced(Flushed(acc.out, acc.current_chunk),
                 SplitLongSentence(sentence, max_tokens))
    ELSE IF acc.current_tokens + CountTokens(sentence) > max_tokens
    THEN Restarted(Flushed(acc.out, acc.current_chunk),
                   GetOverlapText(acc.current_chunk, overlap_tokens)
                       \o <<" ">> \o sentence)
    ELSE [out |-> acc.out,
          current_chunk |-> IF acc.current_chunk # <<>>
                            THEN acc.current_chunk \o <<" ">> \o sentence
                            ELSE sentence,
          current_tokens |-> acc.current_tokens + CountTokens(sentence)]

RECURSIVE ChunkTextLoop(_, _, _, _, _)
ChunkTextLoop(sentences, k, max_tokens, overlap_tokens, acc) ==
    IF k > Len(sentences) THEN acc
    ELSE ChunkTextLoop(sentences, k + 1, max_tokens, overlap_tokens,
                       SentenceStep(acc, sentences[k], max_tokens, overlap_tokens))

\* Lines 117-121
FinishedChunks(acc) == Flushed(acc.out, acc.current_chunk)

\* Lines 78-121
ChunkSentences(s, max_tokens, overlap_tokens) ==
    FinishedChunks(ChunkTextLoop(SplitIntoSentences(s), 1, max_tokens, overlap_tokens,
                        [out |-> <<>>, current_chunk |-> <<>>, current_tokens |-> 0]))

ChunkText_NoShortCut(s, max_tokens, overlap_tokens) ==
    IF Strip(s) = <<>> THEN <<>>
    ELSE ChunkSentences(s, max_tokens, overlap_tokens)

\* chunk_text
ChunkText(s, max_tokens, overlap_tokens) ==
    IF Strip(s) = <<>> THEN <<>>
    ELSE IF CountTokens(s) <= max_tokens THEN <<s>>
    ELSE ChunkSentences(s, max_tokens, overlap_tokens)

\* str.replace(sub, ""): every occurrence of sub, from the left, is removed
RECURSIVE Remove(_, _)
Remove(s, sub) ==
    IF sub = <<>> \/ Len(s) < Len(sub) THEN s
    ELSE IF SubSeq(s, 1, Len(sub)) = sub
         THEN Remove(SubSeq(s, Len(sub) + 1, Len(s)), sub)
         ELSE <<s[1]>> \o Remove(Tail(s), sub)

\* The pages of pgs at the positions ps, joined as chunk_pages joins them
RECURSIVE JoinPages(_, _)
JoinPages(pgs, ps) ==
    IF ps = <<>> THEN <<>>
    ELSE IF Len(ps) = 1 THEN pgs[ps[1]]
    ELSE pgs[ps[1]] \o <<"\n", "\n">> \o JoinPages(pgs, Tail(ps))

PagePlaced_EagerFlush(acc, page, p, max_tokens) ==
    IF acc.current_chunk # <<>> /\ acc.current_tokens + CountTokens(page) >= max_tokens
    THEN [out |-> Append(acc.out, Strip(acc.current_chunk)),
          whole |-> Append(acc.whole, acc.current_whole),
          current_chunk |-> page, current_tokens |-> CountTokens(page),
          current_whole |-> <<p>>]
    ELSE IF acc.current_chunk = <<>>
    THEN [acc EXCEPT !.current_chunk = page, !.current_tokens = CountTokens(page),
                     !.current_whole = <<p>>]
    ELSE [acc EXCEPT !.current_chunk = @ \o <<"\n", "\n">> \o page,
                     !.current_tokens = @ + CountTokens(page),
                     !.current_whole = Append(@, p)]

\* Lines 145-157: the page at position p is put into the running chunk or
\* begins a new one.  acc holds chunks, current_chunk and current_tokens;
\* next to every chunk, whole records the positions of the pages that were
\* put into it undivided
PagePlaced(acc, page, p, max_tokens) ==
    IF acc.current_chunk # <<>> /\ acc.current_tokens + CountTokens(page) > max_tokens
    THEN [out |-> Append(acc.out, Strip(acc.current_chunk)),
          whole |-> Append(acc.whole, acc.current_whole),
          current_chunk |-> page, current_tokens |-> CountTokens(page),
          current_whole |-> <<p>>]
    ELSE IF acc.current_chunk = <<>>
    THEN [acc EXCEPT !.current_chunk = page, !.current_tokens = CountTokens(page),
                     !.current_whole = <<p>>]
    ELSE [acc EXCEPT !.current_chunk = @ \o <<"\n", "\n">> \o page,
                     !.current_tokens = @ + CountTokens(page),
                     !.current_whole = Append(@, p)]

\* Lines 161-162
PageCut(acc, page, p) ==
    IF acc.current_chunk # page
    THEN [acc EXCEPT !.out = Append(@, Strip(Remove(acc.current_chunk, page))),
                     !.whole = Append(@, SelectSeq(acc.current_whole,
                                                   LAMBDA q : q # p))]
    ELSE acc

\* Lines 165-168
PageSpliced(acc, page_chunks) ==
    [out |-> acc.out \o AllButLast(page_chunks),
     whole |-> acc.whole \o [k \in 1..(Len(page_chunks) - 1) |-> <<>>],
     current_chunk |-> LastPiece(page_chunks),
     current_tokens |-> CountTokens(LastPiece(page_chunks)),
     current_whole |-> <<>>]

\* Lines 159-168
PageDivided(acc, page, p, max_tokens, overlap_tokens) ==
    IF CountTokens(page) > max_tokens
    THEN PageSpliced(PageCut(acc, page, p),
                     ChunkText(page, max_tokens, overlap_tokens))
    ELSE acc

\* One round of the loop of chunk_pages (lines 142-168)
PageStep(acc, page, p, max_tokens, overlap_tokens) ==
    PageDivided(PagePlaced(acc, page, p, max_tokens), page, p,
                max_tokens, overlap_tokens)

RECURSIVE ChunkPagesLoop(_, _, _, _, _)
ChunkPagesLoop(pgs, p, max_tokens, overlap_tokens, acc) ==
    IF p > Len(pgs) THEN acc
    ELSE ChunkPagesLoop(pgs, p + 1, max_tokens, overlap_tokens,
                        PageStep(acc, pgs[p], p, max_tokens, overlap_tokens))

\* Lines 170-174
FinishedPages(acc) ==
    IF Strip(acc.current_chunk) # <<>>
    THEN [out |-> Append(acc.out, Strip(acc.current_chunk)),
          whole |-> Append(acc.whole, acc.current_whole)]
    ELSE [out |-> acc.out, whole |-> acc.whole]

\* chunk_pages; overlap_tokens is the OVERLAP_TOKENS that chunk_text takes
\* by default for a page that is divided
ChunkPages(pgs, max_tokens, overlap_tokens) ==
    IF pgs = <<>> THEN [out |-> <<>>, whole |-> <<>>]
    ELSE FinishedPages(ChunkPagesLoop(pgs, 1, max_tokens, overlap_tokens,
                        [out |-> <<>>, whole |-> <<>>, current_chunk |-> <<>>,
                         current_tokens |-> 0, current_whole |-> <<>>]))

\* The characters of the texts
Alphabet == {"a", "b", " ", "."}

RECURSIVE TextsOfLength(_)
TextsOfLength(n) ==
    IF n = 0 THEN {<<>>}
    ELSE {Append(t, c) : t \in TextsOfLength(n - 1), c \in Alphabet}

ShortTexts == UNION {TextsOfLength(n) : n \in 0..MaxTextLen}

\* A word too long for the split by characters to leave whole when
\* max_tokens is 1
LongWord == [i \in 1..(EMBEDDING_FALLBACK_TOKEN_RATIO + 1) |-> "a"]

RECURSIVE WordListsOfLength(_)
WordListsOfLength(n) ==
    IF n = 0 THEN {<<>>}
    ELSE {Append(l, w) : l \in WordListsOfLength(n - 1),
                         w \in {<<"b">>, <<"b", ".">>, LongWord}}

\* Texts of up to three words, some of which are long
LongWordTexts == {JoinWords(l) : l \in UNION {WordListsOfLength(n) : n \in 1..3}}

Texts == ShortTexts \cup LongWordTexts

\* Pages as extract_content_and_pages makes them: the text of a page is
\* stripped and a page of blank text is left out
Pages == {<<"a">>, <<"b", "b">>, <<"a", "b", "a">>, <<"b", "a", "b">>,
          <<"a", " ", "b">>, <<"b", "b", " ", "a">>,
          <<"a", ".", " ", "b", "b">>}

RECURSIVE PageListsOfLength(_)
PageListsOfLength(n) ==
    IF n = 0 THEN {<<>>}
    ELSE {Append(l, pg) : l \in PageListsOfLength(n - 1), pg \in Pages}

\* process_file calls chunk_pages only with more than one page
PageLists == UNION {PageListsOfLength(n) : n \in 2..MaxPages}

\* chunks = self.chunker.chunk_text(...) returns
ChunkTextCall ==
    /\ ck.pc = "called"
    /\ ck.op = "text"
    /\ ck' = [ck EXCEPT !.pc = "returned",
                        !.chunks = ChunkText(ck.text, ck.max_tokens, ck.overlap_tokens)]
    /\ UNCHANGED <<qvars, fvars, rvars, idx, wt, yvars>>

\* chunks = self.chunker.chunk_pages(...) returns
ChunkPagesCall ==
    /\ ck.pc = "called"
    /\ ck.op = "pages"
    /\ \E res \in {ChunkPages(ck.pages, ck.max_tokens, ck.overlap_tokens)} :
          ck' = [ck EXCEPT !.pc = "returned", !.chunks = res.out, !.whole = res.whole]
    /\ UNCHANGED <<qvars, fvars, rvars, idx, wt, yvars>>

InitChunk ==
    /\ \E m \in 1..MaxTokens, o \in 0..MaxOverlap :
          \/ \E t \in Texts :
                ck = [pc |-> "called", op |-> "text", chunks |-> <<>>, whole |-> <<>>,
                      text |-> t, pages |-> <<>>,
                      max_tokens |-> m, overlap_tokens |-> o]
          \/ \E l \in PageLists :
                ck = [pc |-> "called", op |-> "pages", chunks |-> <<>>, whole |-> <<>>,
                      text |-> <<>>, pages |-> l,
                      max_tokens |-> m, overlap_tokens |-> o]
    /\ InitQueue
    /\ cfg = DefaultCfg
    /\ req = DefaultReq
    /\ NoRun
    /\ retry = NoRetry
    /\ idx = NoIndex
    /\ wt = NoWait
    /\ NoExtras

NextChunk ==
    \/ ChunkTextCall
    \/ ChunkPagesCall

SpecChunk == InitChunk /\ [][NextChunk]_vars

(***************************************************************************)
(* Properties of the chunker (specification SpecChunk)                     *)
(***************************************************************************)
TextChunked == ck.pc = "returned" /\ ck.op = "text"

PagesChunked == ck.pc = "returned" /\ ck.op = "pages"

RECURSIVE WordsOf(_)
WordsOf(sentences) ==
    IF sentences = <<>> THEN <<>>
    ELSE SplitWords(sentences[1]) \o WordsOf(Tail(sentences))

\* The words that went through _split_by_characters can only be words of
\* more than max_tokens tokens; their slices are the chunks of the split
\* by characters
CharacterSlices ==
    LET ws == WordsOf(SplitIntoSentences(ck.text))
        long == {w \in {ws[k] : k \in DOMAIN ws} : CountTokens(w) > ck.max_tokens}
    IN UNION {{SplitByCharacters(w, ck.max_tokens)[k] :
                  k \in DOMAIN SplitByCharacters(w, ck.max_tokens)} : w \in long}

\* C26: every chunk that chunk_text returns has at most max_tokens tokens,
\* except the chunks of the split by characters, which have at most
\* max_tokens * EMBEDDING_FALLBACK_TOKEN_RATIO characters; the chunks seeded
\* with overlap text are chunks like the others
C26_Original ==
    TextChunked =>
        \A i \in DOMAIN ck.chunks :
            \/ CountTokens(ck.chunks[i]) <= ck.max_tokens
            \/ /\ ck.chunks[i] \in CharacterSlices
               /\ Len(ck.chunks[i]) <= ck.max_tokens * EMBEDDING_FALLBACK_TOKEN_RATIO

\* C33 as stated: a word of more than max_tokens tokens is split by
\* characters wherever it stands in its sentence: what is left of it in the
\* chunks are pieces of at most max_tokens * EMBEDDING_FALLBACK_TOKEN_RATIO
\* characters, and the word is in no chunk whole.
C33_Original ==
    TextChunked =>
        \A i \in DOMAIN ck.chunks :
            \A k \in DOMAIN SplitWords(ck.chunks[i]) :
                CountTokens(SplitWords(ck.chunks[i])[k]) > ck.max_tokens =>
                    Len(SplitWords(ck.chunks[i])[k])
                        <= ck.max_tokens * EMBEDDING_FALLBACK_TOKEN_RATIO

\* The number of words at the end of chunk c that fit overlap_tokens together
OverlapWords(c) ==
    LET ws == SplitWords(c)
        fits == {k \in 0..Len(ws) :
                    CountTokens(JoinWords(WordsFrom(ws, Len(ws) - k + 1)))
                        <= ck.overlap_tokens}
    IN CHOOSE k \in fits : \A l \in fits : l <= k

LastWordFits(c) ==
    LET ws == SplitWords(c)
    IN ws # <<>> /\ CountTokens(ws[Len(ws)]) <= ck.overlap_tokens

\* Chunk i + 1 begins with the words at the end of chunk i that fit
\* overlap_tokens, all of chunk i when it fits, and goes on after them
BeginsWithOverlap(i) ==
    LET ws == SplitWords(ck.chunks[i])
        k == OverlapWords(ck.chunks[i])
        overlap_text == JoinWords(WordsFrom(ws, Len(ws) - k + 1))
        next_chunk == ck.chunks[i + 1]
    IN /\ k >= 1
       /\ Len(next_chunk) > Len(overlap_text) + 1
       /\ SubSeq(next_chunk, 1, Len(overlap_text) + 1) = overlap_text \o <<" ">>

\* The words of the chunks from chunk i on, without the words that each
\* chunk repeats from the chunk before it
RECURSIVE NewWords(_)
NewWords(i) ==
    IF i > Len(ck.chunks) THEN <<>>
    ELSE LET ws == SplitWords(ck.chunks[i])
             k == IF i = 1 THEN 0 ELSE OverlapWords(ck.chunks[i - 1])
         IN WordsFrom(ws, k + 1) \o NewWords(i + 1)

NoLongSentence ==
    \A k \in DOMAIN SplitIntoSentences(ck.text) :
        CountTokens(SplitIntoSentences(ck.text)[k]) <= ck.max_tokens

C29_Original ==
    (TextChunked /\ CountTokens(ck.text) <= ck.max_tokens) => ck.chunks = <<ck.text>>

\* C29: every text of at most max_tokens tokens that is not empty and not
\* white space only comes back as the one chunk [text], unmodified
C29_ShortTextUnmodified ==
    (TextChunked /\ CountTokens(ck.text) <= ck.max_tokens /\ Strip(ck.text) # <<>>)
        => ck.chunks = <<ck.text>>

\* A text within max_tokens that has white space around it and a sentence
\* mark in it came back as it was
C29_Witness ==
    /\ TextChunked
    /\ CountTokens(ck.text) <= ck.max_tokens
    /\ Strip(ck.text) # <<>>
    /\ Strip(ck.text) # ck.text
    /\ Len(SplitIntoSentences(ck.text)) > 1
    /\ ck.chunks = <<ck.text>>

PageFits(p) == CountTokens(ck.pages[p]) <= ck.max_tokens

\* The positions of the pages put undivided into the chunks from chunk j on
RECURSIVE WholeFrom(_)
WholeFrom(j) ==
    IF j > Len(ck.whole) THEN <<>> ELSE ck.whole[j] \o WholeFrom(j + 1)

\* The positions from p on of the pages of at most max_tokens tokens
RECURSIVE FittingFrom(_)
FittingFrom(p) ==
    IF p > Len(ck.pages) THEN <<>>
    ELSE (IF PageFits(p) THEN <<p>> ELSE <<>>) \o FittingFrom(p + 1)

\* Chunk j ends with its undivided pages, each entire and joined in order
HoldsItsPages(j) ==
    LET joined == JoinPages(ck.pages, ck.whole[j])
    IN /\ Len(ck.chunks[j]) >= Len(joined)
       /\ SubSeq(ck.chunks[j], Len(ck.chunks[j]) - Len(joined) + 1,
                 Len(ck.chunks[j])) = joined

\* Chunk j is made of undivided pages only
OnlyWholePages(j) ==
    ck.whole[j] # <<>> /\ ck.chunks[j] = JoinPages(ck.pages, ck.whole[j])

\* C28: chunk_pages keeps pages whole.  Every page of at most max_tokens
\* tokens is entire in exactly one chunk and the pages keep their order; a
\* chunk is closed before a page exactly when the page added to it would
\* exceed max_tokens; only a page of more than max_tokens tokens is divided
C28_PagesKeptWhole ==
    PagesChunked =>
        /\ Len(ck.whole) = Len(ck.chunks)
        /\ WholeFrom(1) = FittingFrom(1)
        /\ \A j \in DOMAIN ck.chunks :
              /\ HoldsItsPages(j)
              /\ ck.whole[j] # <<>> => CountTokens(ck.chunks[j]) <= ck.max_tokens
              /\ (j > 1 /\ OnlyWholePages(j)) =>
                    CountTokens(ck.chunks[j - 1])
                        + CountTokens(ck.pages[ck.whole[j][1]]) > ck.max_tokens
        /\ (\A p \in DOMAIN ck.pages : PageFits(p)) =>
              \A j \in DOMAIN ck.chunks : OnlyWholePages(j)

\* Three pages of three tokens each with max_tokens = 4 made three chunks,
\* one page in each
C28_Witness ==
    /\ PagesChunked
    /\ Len(ck.pages) = 3
    /\ \A p \in DOMAIN ck.pages : CountTokens(ck.pages[p]) = 3
    /\ ck.pages[1] # ck.pages[2]
    /\ ck.max_tokens = 4
    /\ ck.chunks = ck.pages
    /\ ck.whole = <<<<1>>, <<2>>, <<3>>>>

(***************************************************************************)
(* utils.retry.retry_logic: async_wrapper and sync_wrapper side by side    *)
(***************************************************************************)
\* The waits that _get_wait_time_from_error can return
Waits ==
    {GetWaitTimeFromError(e, t, b, m) :
        e \in Errors, t \in 0..1, b \in 0..MaxSeconds, m \in 0..MaxSeconds}

\* What one invocation of the wrapped function does: it returns, raises a
\* rate-limit error (wait is what _get_wait_time_from_error makes of it) or
\* raises another error
FedOutcomes ==
    {[o |-> "ok", wait |-> 0], [o |-> "other", wait |-> 0]}
        \cup {[o |-> "rate_limit", wait |-> w] : w \in Waits}

RECURSIVE FeedsOfLength(_)
FeedsOfLength(n) ==
    IF n = 0 THEN {<<>>}
    ELSE {Append(f, o) : f \in FeedsOfLength(n - 1), o \in FedOutcomes}

Feeds == UNION {FeedsOfLength(n) : n \in 0..MaxFeed}

Called == [e |-> "call", d |-> 0]

Slept(d) == [e |-> "sleep", d |-> d]

\* A wrapper that was just called: `attempt = 0`
NewWrapper == [pc |-> "loop", attempt |-> 0, trace |-> <<>>, pos |-> 0,
               result |-> [t |-> "none", at |-> 0]]

\* await asyncio.sleep(d): a delay of 0 or less is over at once
AsyncSleep(w, d) == [w EXCEPT !.trace = Append(@, Slept(d))]

\* time.sleep(d): a negative d raises ValueError, which leaves the except
\* clause it was called in and with it the wrapper
SyncSleep(w, d) ==
    IF d < 0 THEN [w EXCEPT !.pc = "raised",
                            !.result = [t |-> "ValueError", at |-> w.pos]]
    ELSE [w EXCEPT !.trace = Append(@, Slept(d))]

\* The wrapper after the invocation at position w.pos was made
Invoked(w) == [w EXCEPT !.trace = Append(@, Called), !.pos = @ + 1]

\* One round of the loop of async_wrapper (lines 113-138), the statement
\* after the loop included
AsyncRound(w, outcome, max_retries, delay) ==
    IF ~(w.attempt < max_retries)
    THEN [w EXCEPT !.pc = "raised", !.result = [t |-> "RuntimeError", at |-> w.pos]]
    ELSE IF outcome.o = "ok"
    THEN [Invoked(w) EXCEPT !.pc = "returned",
                            !.result = [t |-> "value", at |-> w.pos + 1]]
    ELSE IF IsRateLimitError(outcome.o)
    THEN AsyncSleep(Invoked(w), outcome.wait)
    ELSE IF w.attempt + 1 < max_retries
    THEN AsyncSleep([Invoked(w) EXCEPT !.attempt = @ + 1], delay)
    ELSE [Invoked(w) EXCEPT !.attempt = @ + 1, !.pc = "raised",
                            !.result = [t |-> "exc", at |-> w.pos + 1]]

\* One round of the loop of sync_wrapper (lines 148-173), the statement
\* after the loop included
SyncRound(w, outcome, max_retries, delay) ==
    IF ~(w.attempt < max_retries)
    THEN [w EXCEPT !.pc = "raised", !.result = [t |-> "RuntimeError", at |-> w.pos]]
    ELSE IF outcome.o = "ok"
    THEN [Invoked(w) EXCEPT !.pc = "returned",
                            !.result = [t |-> "value", at |-> w.pos + 1]]
    ELSE IF IsRateLimitError(outcome.o)
    THEN SyncSleep(Invoked(w), outcome.wait)
    ELSE IF w.attempt + 1 < max_retries
    THEN SyncSleep([Invoked(w) EXCEPT !.attempt = @ + 1], delay)
    ELSE [Invoked(w) EXCEPT !.attempt = @ + 1, !.pc = "raised",
                            !.result = [t |-> "exc", at |-> w.pos + 1]]

\* The outcome of the next invocation of a wrapper, if the loop gets to it
NextFed(w) ==
    IF w.pos < Len(pr.feed) THEN pr.feed[w.pos + 1] ELSE [o |-> "none", wait |-> 0]

\* The wrapper can go on: it has not ended, and the outcome of its next
\* invocation, if it makes one, is known
CanGoOn(w) ==
    /\ w.pc = "loop"
    /\ w.attempt < pr.max_retries => w.pos < Len(pr.feed)

\* The async wrapper goes through one round of its loop
AsyncStep ==
    /\ pr.pc = "called"
    /\ CanGoOn(pr.async)
    /\ pr' = [pr EXCEPT !.async = AsyncRound(pr.async, NextFed(pr.async),
                                             pr.max_retries, pr.delay)]
    /\ UNCHANGED <<qvars, fvars, rvars, idx, wt, ck, tk, nr, ix>>

\* The sync wrapper goes through one round of its loop
SyncStep ==
    /\ pr.pc = "called"
    /\ CanGoOn(pr.sync)
    /\ pr' = [pr EXCEPT !.sync = SyncRound(pr.sync, NextFed(pr.sync),
                                           pr.max_retries, pr.delay)]
    /\ UNCHANGED <<qvars, fvars, rvars, idx, wt, ck, tk, nr, ix>>

\* Both wrappers are called around functions that behave alike
InitPair ==
    /\ InitQueue
    /\ cfg = DefaultCfg
    /\ req = DefaultReq
    /\ NoRun
    /\ retry = NoRetry
    /\ idx = NoIndex
    /\ wt = NoWait
    /\ ck = NoChunking
    /\ \E f \in Feeds, m \in 0..MaxRetriesArg, d \in 0..MaxSeconds :
          pr = [pc |-> "called", feed |-> f, max_retries |-> m, delay |-> d,
                async |-> NewWrapper, sync |-> NewWrapper]
    /\ tk = NoToken
    /\ nr = NoNest
    /\ ix = NoStore

NextPair ==
    \/ AsyncStep
    \/ SyncStep

SpecPair == InitPair /\ [][NextPair]_vars

(***************************************************************************)
(* Properties of the two wrappers (specification SpecPair)                 *)
(***************************************************************************)
IsPrefix(t1, t2) == Len(t1) <= Len(t2) /\ SubSeq(t2, 1, Len(t1)) = t1

WrapperEnded(w) == w.pc \in {"returned", "raised"}

\* C32 as stated: fed the same outcomes, the two wrappers make the same
\* invocations and sleeps of the same durations, and end with the same
\* result or the same error: of their traces one is the beginning of the
\* other, a wrapper that has ended is not overtaken, and two ended wrappers
\* have the same trace and result.
C32_Original ==
    pr.pc = "called" =>
        /\ IsPrefix(pr.async.trace, pr.sync.trace)
              \/ IsPrefix(pr.sync.trace, pr.async.trace)
        /\ WrapperEnded(pr.sync) => IsPrefix(pr.async.trace, pr.sync.trace)
        /\ WrapperEnded(pr.async) => IsPrefix(pr.sync.trace, pr.async.trace)
        /\ (WrapperEnded(pr.sync) /\ WrapperEnded(pr.async)) =>
              /\ pr.sync.trace = pr.async.trace
              /\ pr.sync.result = pr.async.result

(***************************************************************************)
(* AzureClientBase._refresh_token: the tasks of one event loop that share  *)
(* one client                                                              *)
(***************************************************************************)
Tasks == 1..MaxTasks

\* The task that holds self._lock, 0 when it is free
NoHolder == 0

\* The event loop runs one task at a time and changes task only at an await
\* that suspends; a thread that waits in Lock.acquire runs no task
ThreadRuns == \A t \in Tasks : tk.task[t] # "blocked"

\* A task gets to `await self._refresh_token()` (through _get_headers)
RefreshCall(t) ==
    /\ tk.pc = "serving"
    /\ ThreadRuns
    /\ tk.task[t] = "idle"
    /\ tk' = [tk EXCEPT !.task[t] = "ready"]
    /\ UNCHANGED <<qvars, fvars, rvars, idx, wt, ck, pr, nr, ix>>

\* The task runs _refresh_token up to its first suspension: the first test
\* of the token (line 95), `with self._lock` (line 101), the second test
\* (line 103) and the call of get_token_async (line 112), which suspends in
\* credential.get_token
RefreshRun(t) ==
    /\ tk.pc = "serving"
    /\ ThreadRuns
    /\ tk.task[t] = "ready"
    /\ IF tk.token_valid
       THEN tk' = [tk EXCEPT !.task[t] = "returned"]
       ELSE IF tk.lock # NoHolder
       THEN tk' = [tk EXCEPT !.task[t] = "blocked"]
       ELSE tk' = [tk EXCEPT !.task[t] = "acquiring", !.lock = t]
    /\ UNCHANGED <<qvars, fvars, rvars, idx, wt, ck, pr, nr, ix>>

\* get_token_async is over and the event loop resumes the task: the token is
\* stored (lines 113-114) or TokenAcquisitionError is turned into Exception
\* (lines 118-120); leaving the with block releases the lock
TokenArrives(t, acquired) ==
    /\ tk.pc = "serving"
    /\ ThreadRuns
    /\ tk.task[t] = "acquiring"
    /\ tk' = [tk EXCEPT !.task[t] = IF acquired THEN "returned" ELSE "raised",
                        !.token_valid = acquired,
                        !.lock = NoHolder]
    /\ UNCHANGED <<qvars, fvars, rvars, idx, wt, ck, pr, nr, ix>>

\* The caller of _refresh_token goes on and is ready for its next request
RefreshDone(t) ==
    /\ tk.pc = "serving"
    /\ ThreadRuns
    /\ tk.task[t] \in {"returned", "raised"}
    /\ tk' = [tk EXCEPT !.task[t] = "idle"]
    /\ UNCHANGED <<qvars, fvars, rvars, idx, wt, ck, pr, nr, ix>>

\* Time passes token_expiry
TokenExpires ==
    /\ tk.pc = "serving"
    /\ tk.token_valid
    /\ tk' = [tk EXCEPT !.token_valid = FALSE]
    /\ UNCHANGED <<qvars, fvars, rvars, idx, wt, ck, pr, nr, ix>>

\* A client after __init__ (no token) or after pre_warm_token
InitToken ==
    /\ InitQueue
    /\ cfg = DefaultCfg
    /\ req = DefaultReq
    /\ NoRun
    /\ retry = NoRetry
    /\ idx = NoIndex
    /\ wt = NoWait
    /\ ck = NoChunking
    /\ pr = NoPair
    /\ \E v \in BOOLEAN :
          tk = [pc |-> "serving", token_valid |-> v, lock |-> NoHolder,
                task |-> [t \in Tasks |-> "idle"]]
    /\ nr = NoNest
    /\ ix = NoStore

NextToken ==
    \/ \E t \in Tasks : RefreshCall(t)
    \/ \E t \in Tasks : RefreshRun(t)
    \/ \E t \in Tasks, acquired \in BOOLEAN : TokenArrives(t, acquired)
    \/ \E t \in Tasks : RefreshDone(t)
    \/ TokenExpires

SpecToken == InitToken /\ [][NextToken]_vars

(***************************************************************************)
(* Properties of the token refresh (specification SpecToken)               *)
(***************************************************************************)
\* C34 as stated: no task waits for the token lock while another task of
\* the same thread holds it across its suspended token acquisition.
C34_Original ==
    tk.pc = "serving" =>
        \A t \in Tasks :
            ~(tk.task[t] = "blocked" /\ tk.lock # NoHolder
                 /\ tk.task[tk.lock] = "acquiring")

\* ---------------------------------------------------------------------------
\* ServiceBusQueueReceiver.complete_message as _process_single_message sees it
\* ---------------------------------------------------------------------------

\* C35 (as stated): whenever a handler returns True after calling
\* complete_message, the queue has removed its message: the call reports
\* success only if the queue acknowledged the completion, also for a message
\* without a lock token and for an answer other than 200/204.
C35_Original ==
    \A i \in HandlerIds :
        h[i].ret = "true" /\ Issued(i, "complete") /\ h[i].cres = "returned" =>
            h[i].qstate = "completed"

(***************************************************************************)
(* One search index fed by the runs of process_file on several sources,    *)
(* whose content, and with it the number of chunks, may change between     *)
(* two runs                                                                *)
(***************************************************************************)
\* container_name as it arrives in a message
Containers == {"docs", "archive"}

\* blob_name as it arrives in a message
BlobNames == {<<"a", "/", "b">>, <<"a", "_", "b">>}

\* The (container, blob) pairs process_file is called with
Sources == [container_name : Containers, blob_name : BlobNames]

\* The text of chunk i of a source
ChunkOf(src, i) == [of |-> src, part |-> i]

\* The batch index_document_chunks builds for a source that chunk_text or
\* chunk_pages cut into n chunks, every embedding having been computed
SourceBatch(src, n) ==
    BuildDocuments(BaseDocumentId(src.blob_name),
        [i \in 1..n |->
            TaskResult(i, ChunkOf(src, i),
                       GenerateEmbeddings(ChunkOf(src, i), [st |-> "returned"]))])

\* process_file runs on a source that yields n chunks, and upload_documents
\* succeeds; wrote and count record, for each source, the ids its runs have
\* posted and the number of chunks of its latest successful run
SourceRun(src, n) ==
    /\ ix.pc = "serving"
    /\ ix.runs < MaxSourceRuns
    /\ ix' = [ix EXCEPT !.runs = @ + 1,
                        !.docs = Upload(@, SourceBatch(src, n)),
                        !.wrote[src] = @ \cup Ids(SourceBatch(src, n)),
                        !.count[src] = n]
    /\ UNCHANGED <<qvars, fvars, rvars, idx, wt, ck, pr, tk, nr>>

\* process_file runs on a source and ends with an exception before or in
\* upload_documents
SourceRunFailed(src) ==
    /\ ix.pc = "serving"
    /\ ix.runs < MaxSourceRuns
    /\ ix' = [ix EXCEPT !.runs = @ + 1]
    /\ UNCHANGED <<qvars, fvars, rvars, idx, wt, ck, pr, tk, nr>>

\* An empty index
InitSources ==
    /\ InitQueue
    /\ cfg = DefaultCfg
    /\ req = DefaultReq
    /\ NoRun
    /\ retry = NoRetry
    /\ idx = NoIndex
    /\ wt = NoWait
    /\ ck = NoChunking
    /\ pr = NoPair
    /\ tk = NoToken
    /\ nr = NoNest
    /\ ix = [pc |-> "serving", runs |-> 0, docs |-> <<>>,
             wrote |-> [src \in Sources |-> {}],
             count |-> [src \in Sources |-> 0]]

NextSources ==
    \/ \E src \in Sources, n \in 1..MaxChunks : SourceRun(src, n)
    \/ \E src \in Sources : SourceRunFailed(src)

SpecSources == InitSources /\ [][NextSources]_vars

(***************************************************************************)
(* Properties of the shared index (specification SpecSources)              *)
(***************************************************************************)
\* C36 (as stated): two different sources, that is two different pairs of
\* container name and blob name, never post a document under the same id, so
\* that a run on one source never overwrites a document of another.
C36_Original ==
    ix.pc = "serving" =>
        \A s1, s2 \in Sources :
            s1 # s2 => ix.wrote[s1] \cap ix.wrote[s2] = {}

\* C37 (as stated): once a source has been processed again, the index holds
\* no document of that source whose ordinal is at or beyond the number of
\* chunks of its latest successful run.
C37_Original ==
    ix.pc = "serving" =>
        \A k \in DOMAIN ix.docs :
            ix.docs[k].id[3] < ix.count[ix.docs[k].content.of]

(***************************************************************************)
(* A function wrapped by retry_logic that awaits another wrapped function: *)
(* generate_embeddings -> create_embeddings, create_document ->            *)
(* upload_documents, update_document -> update_documents, delete_document  *)
(* -> delete_documents.  Both wrappers get max_retries from the decorator. *)
(***************************************************************************)
\* The outer functions
NestedCallers ==
    {"generate_embeddings", "create_document", "update_document", "delete_document"}

\* generate_embeddings catches every exception of its body and returns the
\* zero vector; the three others are a bare `return await ...`
Swallows(caller) == caller = "generate_embeddings"

\* How one invocation of the inner function ends: the request is answered
\* 2xx, raise_for_status raises for 429 or for another status, or
\* _get_headers raises before any request is sent
NestedOutcomes == {"ok", "rate_limit", "fail", "token_error"}

\* The outer async_wrapper has been called: `attempt = 0`
NewNest(caller, m) ==
    [pc |-> "outer_test", caller |-> caller, max_retries |-> m,
     outer |-> 0, inner |-> 0, http |-> 0, limited |-> 0, result |-> "none"]

\* `while attempt < max_retries` of the outer wrapper: it awaits the outer
\* function, which calls the inner wrapper (`attempt = 0`), or it leaves the
\* loop and raises RuntimeError
OuterTest ==
    /\ nr.pc = "outer_test"
    /\ nr' = IF nr.outer < nr.max_retries
             THEN [nr EXCEPT !.pc = "inner_test", !.inner = 0]
             ELSE [nr EXCEPT !.pc = "raised", !.result = "RuntimeError"]
    /\ UNCHANGED <<qvars, fvars, rvars, idx, wt, ck, pr, tk, ix>>

\* An exception of the inner wrapper reaches the outer function: the except
\* clause of generate_embeddings returns the zero vector, so its wrapper
\* returns; elsewhere the exception reaches the outer wrapper, which counts
\* it (it is no rate-limit error: the inner wrapper never lets one out) and
\* sleeps or raises
InnerRaised(n, error) ==
    IF Swallows(n.caller)
    THEN [n EXCEPT !.pc = "returned", !.result = "zero_vector"]
    ELSE IF n.outer + 1 < n.max_retries
         THEN [n EXCEPT !.pc = "outer_sleep", !.outer = @ + 1]
         ELSE [n EXCEPT !.pc = "raised", !.outer = @ + 1, !.result = error]

\* `while attempt < max_retries` of the inner wrapper
InnerTest ==
    /\ nr.pc = "inner_test"
    /\ nr' = IF nr.inner < nr.max_retries
             THEN [nr EXCEPT !.pc = "in_func"]
             ELSE InnerRaised(nr, "RuntimeError")
    /\ UNCHANGED <<qvars, fvars, rvars, idx, wt, ck, pr, tk, ix>>

\* The inner function after one more request, if it sent one
Requested(n, o) ==
    [n EXCEPT !.http = IF o = "token_error" THEN @ ELSE @ + 1,
              !.limited = IF o = "rate_limit" THEN @ + 1 ELSE @]

\* One invocation of the inner function ends, and the except clause of the
\* inner wrapper runs up to its sleep or its raise
InnerFuncEnd(o) ==
    /\ nr.pc = "in_func"
    /\ o = "rate_limit" => nr.limited < MaxRateLimited
    /\ nr' = CASE o = "ok" ->
                    [Requested(nr, o) EXCEPT !.pc = "returned", !.result = "value"]
               [] o = "rate_limit" ->
                    [Requested(nr, o) EXCEPT !.pc = "inner_rate_sleep"]
               [] OTHER ->
                    IF nr.inner + 1 < nr.max_retries
                    THEN [Requested(nr, o) EXCEPT !.pc = "inner_sleep", !.inner = @ + 1]
                    ELSE InnerRaised([Requested(nr, o) EXCEPT !.inner = @ + 1], o)
    /\ UNCHANGED <<qvars, fvars, rvars, idx, wt, ck, pr, tk, ix>>

\* asyncio.sleep of the inner wrapper returns: `continue` after a rate
\* limit, the next iteration after a counted failure
InnerSleepEnd ==
    /\ nr.pc \in {"inner_sleep", "inner_rate_sleep"}
    /\ nr' = [nr EXCEPT !.pc = "inner_test"]
    /\ UNCHANGED <<qvars, fvars, rvars, idx, wt, ck, pr, tk, ix>>

\* asyncio.sleep(delay) of the outer wrapper returns
OuterSleepEnd ==
    /\ nr.pc = "outer_sleep"
    /\ nr' = [nr EXCEPT !.pc = "outer_test"]
    /\ UNCHANGED <<qvars, fvars, rvars, idx, wt, ck, pr, tk, ix>>

\* A call of one of the outer functions
InitNest ==
    /\ InitQueue
    /\ cfg = DefaultCfg
    /\ req = DefaultReq
    /\ NoRun
    /\ retry = NoRetry
    /\ idx = NoIndex
    /\ wt = NoWait
    /\ ck = NoChunking
    /\ pr = NoPair
    /\ tk = NoToken
    /\ ix = NoStore
    /\ \E caller \in NestedCallers, m \in 0..MaxRetriesArg :
          nr = NewNest(caller, m)

NextNest ==
    \/ OuterTest
    \/ InnerTest
    \/ \E o \in NestedOutcomes : InnerFuncEnd(o)
    \/ InnerSleepEnd
    \/ OuterSleepEnd

SpecNest == InitNest /\ [][NextNest]_vars

(***************************************************************************)
(* Properties of nested wrapped calls (specification SpecNest)             *)
(***************************************************************************)
\* C38 (as stated): in one call of an outer function during which no request
\* was rate-limited, at most max_retries requests are sent.
C38_Original ==
    nr.pc # "idle" /\ nr.limited = 0 => nr.http <= nr.max_retries

(***************************************************************************)
(* Batches of start_processing (specification Spec)                        *)
(***************************************************************************)
\* The handler has returned, or gather holds what it returned
Returned(i) == h[i].pc \in {"done", "collected"}

\* An exception reached the handler: process_file raised one that is no
\* skip, or complete_message or abandon_message raised
SawException(i) ==
    h[i].pf \in Abandons \/ h[i].cres = "raise" \/ h[i].ares = "raise"

\* C39: the loop of start_processing is at its condition, in
\* receive_messages or in its error sleep only when every handler of the
\* batch before has returned, so that the handlers in progress all belong to
\* one batch; and a handler that has returned has returned True or False
\* after calling complete_message or abandon_message for its message,
\* whatever exceptions the other handlers of its batch have met.
C39_BatchBarrier ==
    /\ loop_pc \in {"loop", "receiving", "error_sleep"} =>
          \A i \in HandlerIds : h[i].pc = "collected"
    /\ \A i \in HandlerIds :
          /\ ~Finished(i) => loop_pc = "gathering"
          /\ Returned(i) => h[i].ret \in {"true", "false"}
          /\ h[i].pc = "done" => Issued(i, "complete") \/ Issued(i, "abandon")

\* Two handlers of one batch have returned: one met an exception of
\* process_file and then one of abandon_message, the other has completed its
\* message and returned True
C39_Witness ==
    /\ loop_pc = "gathering"
    /\ \E i, j \in HandlerIds :
          /\ i # j
          /\ h[i].pc = "done" /\ h[i].pf = "Exception" /\ h[i].ares = "raise"
          /\ h[j].pc = "done" /\ h[j].ret = "true" /\ h[j].qstate = "completed"
          /\ ~SawException(j)

(***************************************************************************)
(* Content kept by chunk_text (specification SpecChunk)                    *)
(***************************************************************************)
\* The characters of a text that are no white space, in order
NonSpace(text) == SelectSeq(text, LAMBDA c : ~IsSpace(c))

\* The chunks, each without some prefix of it, spell `rest`
RECURSIVE SpelledBy(_, _)
SpelledBy(chs, rest) ==
    IF chs = <<>> THEN rest = <<>>
    ELSE \E cut \in 0..Len(chs[1]) :
            LET kept == NonSpace(SubSeq(chs[1], cut + 1, Len(chs[1])))
            IN /\ IsPrefix(kept, rest)
               /\ SpelledBy(Tail(chs), SubSeq(rest, Len(kept) + 1, Len(rest)))

\* C40 (as stated): when chunk_text takes the path of several chunks, the
\* characters of the input that are no white space, the marks that end its
\* sentences included, are what its chunks spell in input order once the
\* overlap at the head of every chunk but the first is removed.
C40_Original ==
    (TextChunked /\ CountTokens(ck.text) > ck.max_tokens) =>
        /\ ck.chunks # <<>>
        /\ \E first \in {NonSpace(ck.chunks[1])} :
              /\ IsPrefix(first, NonSpace(ck.text))
              /\ SpelledBy(Tail(ck.chunks),
                           SubSeq(NonSpace(ck.text), Len(first) + 1,
                                  Len(NonSpace(ck.text))))

====
